---- MODULE Spec2Model ----
(***************************************************************************)
(* Vibe Assistant backend: the prompt-enhancement pipeline.                *)
(*                                                                         *)
(* One request is followed from its arrival to its response.  A request    *)
(* enters through one of the three HTTP handlers of app.py                 *)
(* (/api/enhance-prompt, /api/enhance-prompt-with-architecture,            *)
(* /api/stream-response) or through a direct call of                       *)
(* PromptService.enhance_prompt.  Requests are independent of each other   *)
(* (the pipeline keeps no per-request state between requests), so a        *)
(* behaviour holds one request.                                            *)
(*                                                                         *)
(* Text is a sequence of tokens [c |-> <characters>, n |-> <repeat>]: the  *)
(* token stands for the characters c written n times.                      *)
(***************************************************************************)
EXTENDS Integers, Sequences, FiniteSets, TLC

(***************************************************************************)
(* Bounds of the model.                                                    *)
(***************************************************************************)
\* longest LLM response, in tokens
MaxRespLen == 2
\* most upstream events of one streaming invocation
MaxStreamEvents == 2
\* largest reading of the streaming clock, in seconds
MaxClock == 2
\* most files of a file list
MaxFiles == 11
\* most nodes of a layer
MaxNodes == 11
\* most words of a short prompt
MaxWords == 3

(***************************************************************************)
(* Program constants.                                                      *)
(***************************************************************************)
\* default of max_retries in PromptService._invoke_llm_with_retry
MaxRetries == 3
\* base of the backoff, wait_time = 2 ** attempt
BackoffBase == 2
\* longest custom_instructions the handlers accept
MaxCustomLen == 2000
\* `get_validation_rule("max_file_display") or 10`
DefaultMaxFileDisplay == 10
\* `get_validation_rule("max_components_per_layer") or 10`
DefaultMaxComponents == 10
\* complexity_thresholds.get("low", 150)
DefaultLow == 150
\* complexity_thresholds.get("medium", 300)
DefaultMedium == 300

(***************************************************************************)
(* Text.                                                                   *)
(***************************************************************************)
Tok(c, n) == [c |-> c, n |-> n]
Sp == Tok(" ", 1)
Ch == Tok("a", 1)
ScriptOpen == Tok("<script>", 1)
ScriptClose == Tok("</script>", 1)
JsUri == Tok("javascript:", 1)

\* number of characters of one occurrence of the token's characters
UnitLen(c) ==
  CASE c = "<script>" -> 8
    [] c = "</script>" -> 9
    [] c = "javascript:" -> 11
    [] c = "w " -> 2
    [] OTHER -> 1

RECURSIVE len(_)
\* Python len(str): the number of characters
len(s) == IF s = <<>> THEN 0 ELSE Head(s).n * UnitLen(Head(s).c) + len(Tail(s))

IsSpace(t) == t.c = " "

RECURSIVE lstrip(_)
lstrip(s) == IF s = <<>> THEN <<>> ELSE IF IsSpace(Head(s)) THEN lstrip(Tail(s)) ELSE s

RECURSIVE rstrip(_)
rstrip(s) ==
  IF s = <<>> THEN <<>>
  ELSE IF IsSpace(s[Len(s)]) THEN rstrip(SubSeq(s, 1, Len(s) - 1)) ELSE s

\* Python str.strip(): leading and trailing whitespace removed
strip(s) == rstrip(lstrip(s))

RECURSIVE Pow(_, _)
Pow(b, e) == IF e = 0 THEN 1 ELSE b * Pow(b, e - 1)

\* the texts of at most k tokens over the tokens of T
TextsUpTo(T, k) == UNION {[1..m -> T] : m \in 0..k}

RECURSIVE remove_script_blocks(_)
\* re.sub(r'<script[^>]*>.*?</script>', '', s): every opening tag is removed with
\* all that follows it up to the first closing tag; an opening tag no closing tag
\* follows stays
remove_script_blocks(s) ==
  IF s = <<>> THEN <<>>
  ELSE IF Head(s).c = "<script>" /\ \E j \in 2..Len(s) : s[j].c = "</script>"
  THEN LET j == CHOOSE k \in 2..Len(s) :
                  /\ s[k].c = "</script>"
                  /\ \A m \in 2..(k - 1) : s[m].c # "</script>"
       IN remove_script_blocks(SubSeq(s, j + 1, Len(s)))
  ELSE <<Head(s)>> \o remove_script_blocks(Tail(s))

NotJsUri(t) == t.c # "javascript:"
\* re.sub(r'javascript:', '', s)
remove_javascript_uris(s) == SelectSeq(s, NotJsUri)

\* app.py lines 337-339: the sanitization of custom_instructions
sanitize(s) == strip(remove_javascript_uris(remove_script_blocks(s)))

(***************************************************************************)
(* Error messages, str(e).  attempts and last are filled by the aggregated *)
(* error of the retry loop only.                                           *)
(***************************************************************************)
Msg(text) == [text |-> text, attempts |-> 0, last |-> ""]
NoMsg == Msg("")
AggregatedMsg(k, lastText) ==
  [text |-> "LLM invocation failed after {max_retries} attempts. Last error: {last_error}",
   attempts |-> k, last |-> lastText]

\* a string the service returns: prefix, then text, then the message
PyStr(prefix, text, msg) == [prefix |-> prefix, text |-> text, msg |-> msg]
NoStr == PyStr("", <<>>, NoMsg)

(***************************************************************************)
(* State.                                                                  *)
(***************************************************************************)
VARIABLES
  pc,           \* where the request is: "idle", a step of a handler or of the service, "done"
  ep,           \* the entry point: "plain", "arch", "stream" or "direct"
  args,         \* the arguments of PromptService.enhance_prompt
  constructed,  \* constructed_prompt, NoPrompt until it is built
  calls,        \* the outcomes of the invoke_claude calls of this request, in order
  sleeps,       \* the time.sleep durations of the retry loop, in order
  last_error,   \* last_error of the retry loop, as str(last_error)
  result,       \* what PromptService.enhance_prompt returned
  log,          \* the steps taken for this request, in order
  data,         \* the JSON body of the HTTP request
  enhancement_type,     \* the handler's local enhancement_type
  custom_instructions,  \* the handler's local custom_instructions
  status,       \* the HTTP status of the response, 0 while there is none
  body,         \* the JSON body of the response
  clock,        \* seconds since invoke_claude_streaming started
  timeout_occurred,  \* the threading.Event the timeout timer sets
  upstream,     \* the number of upstream events the streaming loop has taken
  events,       \* the server-sent events generate() has yielded, in order
  backing_file, \* the file PromptConfigLoader reads: missing, unreadable, or its content
  config,       \* PromptConfigLoader.config, the catalog loaded
  call,         \* the library function called on its own, and its arguments
  ret,          \* what that call returned or raised
  db,           \* the content of the Neo4j database
  graph_call,   \* the last request to a graph route and the status of its answer
  environ,      \* os.environ.get('GITHUB_TOKEN')
  github_service,   \* the GitHubService the requests share: its token and client
  github_requests   \* the repository requests in progress

svc_vars == <<args, constructed, calls, sleeps, last_error, result>>
http_vars == <<data, enhancement_type, custom_instructions, status, body>>
stream_vars == <<clock, timeout_occurred, upstream, events>>
lib_vars == <<backing_file, config, call, ret>>
request_vars == <<ep, log, svc_vars, http_vars, stream_vars>>
graph_vars == <<db, graph_call>>
github_vars == <<environ, github_service, github_requests>>
store_vars == <<graph_vars, github_vars>>
vars == <<pc, request_vars, lib_vars, store_vars>>

(***************************************************************************)
(* Python values.  A value is a record with a `kind`: "none", "int",      *)
(* "str", "list", "dict".  A dict holds the set `keys` of the keys it has, *)
(* beside a field for every key it is asked for.                           *)
(***************************************************************************)
NoneV == [kind |-> "none", text |-> <<>>]
StrV(s) == [kind |-> "str", text |-> s]
PyInt(n) == [kind |-> "int", n |-> n]
PyList(items) == [kind |-> "list", items |-> items]
EmptyDict == [kind |-> "dict", keys |-> {}]

\* the truth value Python gives a value in `if v:` and `v or d`
bool(v) ==
  CASE v.kind = "none" -> FALSE
    [] v.kind = "int" -> v.n # 0
    [] v.kind = "str" -> v.text # <<>>
    [] v.kind = "list" -> v.items # <<>>
    [] v.kind = "dict" -> v.keys # {}
    [] OTHER -> TRUE

\* dict.get(key, default)
get(d, key, default) == IF key \in d.keys THEN d[key] ELSE default

\* an exception raised to the caller, in place of a returned value
Raise(e) == [kind |-> "raise", error |-> e]
Raised(v) == v.kind = "raise"

(***************************************************************************)
(* PromptConfigLoader.                                                     *)
(***************************************************************************)
CanonicalTypes == {"full_specification", "enhanced_prompt", "rephrase"}

\* the keys of "system_prompts" in the built-in catalog
SystemPromptKeys == CanonicalTypes \cup {"default"}

\* the literal of get_system_prompt, lines 141 and 144
LiteralSystemPrompt == "You are an expert AI coding assistant."

\* the "system_prompts" of a catalog; a prompt is written as the key it is filed under
SystemPrompts(keys) ==
  [kind |-> "dict", keys |-> keys, default |-> "default",
   full_specification |-> "full_specification", enhanced_prompt |-> "enhanced_prompt",
   rephrase |-> "rephrase"]

\* one entry of "enhancement_instructions": its title and the number of its
\* requirements; the catalogs considered hold no 'structure', 'output_format'
\* or 'important_note'
Entry(keys, title, requirements) ==
  [kind |-> "dict", keys |-> keys, title |-> title, requirements |-> requirements]
EntryKeys == {"title", "description", "requirements"}

Instructions(keys, fs, en, rp, df) ==
  [kind |-> "dict", keys |-> keys, full_specification |-> fs, enhanced_prompt |-> en,
   rephrase |-> rp, default |-> df]

Thresholds(keys, low, medium) ==
  [kind |-> "dict", keys |-> keys, low |-> low, medium |-> medium]

ValidationRules(keys, max_file_display, max_components_per_layer, complexity_thresholds) ==
  [kind |-> "dict", keys |-> keys, max_file_display |-> max_file_display,
   max_components_per_layer |-> max_components_per_layer,
   complexity_thresholds |-> complexity_thresholds]

Config(keys, system_prompts, enhancement_instructions, validation_rules) ==
  [kind |-> "dict", keys |-> keys, system_prompts |-> system_prompts,
   enhancement_instructions |-> enhancement_instructions,
   validation_rules |-> validation_rules]

\* PromptConfigLoader._get_fallback_config: the built-in catalog, as far as
\* the prompt pipeline reads it
_get_fallback_config ==
  Config({"system_prompts", "enhancement_instructions", "validation_rules"},
    SystemPrompts(SystemPromptKeys),
    Instructions(CanonicalTypes,
      Entry(EntryKeys, "FULL SPECIFICATION REQUEST", 6),
      Entry(EntryKeys, "ENHANCED IMPLEMENTATION PLAN", 6),
      Entry(EntryKeys, "PROMPT OPTIMIZATION", 5),
      EmptyDict),
    ValidationRules({"max_file_display", "max_components_per_layer", "complexity_thresholds"},
      PyInt(DefaultMaxFileDisplay), PyInt(DefaultMaxComponents),
      Thresholds({"low", "medium"}, PyInt(DefaultLow), PyInt(DefaultMedium))))

\* the backing file: missing, unreadable, no valid JSON, or the JSON value read
File(kind, value) == [kind |-> kind, value |-> value]

\* PromptConfigLoader._load_config: what self.config becomes
_load_config(f) ==
  CASE f.kind = "missing" -> _get_fallback_config
    [] f.kind = "invalid_json" -> _get_fallback_config
    [] f.kind = "unreadable" -> _get_fallback_config
    [] OTHER -> f.value

\* self.config.get(key, {}): only a dict has the method
config_get(key) ==
  IF config.kind # "dict" THEN Raise("AttributeError") ELSE get(config, key, EmptyDict)

\* PromptConfigLoader.get_system_prompt: the entry of the type, else the
\* 'default' entry, else the literal; an exception gives the literal
get_system_prompt(prompt_type) ==
  LET system_prompts == config_get("system_prompts") IN
  IF Raised(system_prompts) THEN LiteralSystemPrompt
  ELSE get(system_prompts, prompt_type, get(system_prompts, "default", LiteralSystemPrompt))

\* PromptConfigLoader.get_validation_rule: no try block, the exception goes to the caller
get_validation_rule(rule_name) ==
  LET validation_rules == config_get("validation_rules") IN
  IF Raised(validation_rules) THEN validation_rules
  ELSE get(validation_rules, rule_name, NoneV)

LegacyAliases == {"maximum_detail", "balanced", "key_requirements"}

\* the alias table shared by the loader and the constructor
AliasMapping(t) ==
  CASE t = "maximum_detail" -> "full_specification"
    [] t = "balanced" -> "enhanced_prompt"
    [] t = "key_requirements" -> "rephrase"
    [] OTHER -> t

\* one line of a prompt
Line(kind, text, n) == [kind |-> kind, text |-> text, n |-> n]
Blank == Line("blank", "", 0)

\* the lines "- ..." of a list of k items
Items(kind, k) == [i \in 1..k |-> Line(kind, "", i)]

\* the title of _get_fallback_enhancement_instructions for a type
FallbackTitle(mapped_type) ==
  CASE mapped_type = "full_specification" -> "FULL SPECIFICATION REQUEST"
    [] mapped_type = "enhanced_prompt" -> "ENHANCED IMPLEMENTATION PLAN"
    [] mapped_type = "rephrase" -> "PROMPT OPTIMIZATION"
    [] OTHER -> "ENHANCEMENT INSTRUCTIONS"

\* PromptConfigLoader._get_fallback_enhancement_instructions
_get_fallback_enhancement_instructions(t) ==
  <<Line("h2", FallbackTitle(AliasMapping(t)), 0), Blank, Line("description", "", 0), Blank,
    Line("h3", "Requirements:", 0)>>

\* a plausible slip: the catalog looked up under the type as given, no alias mapped
FormatWithoutAliases(t) ==
  LET all == config_get("enhancement_instructions")
      found == get(all, t, EmptyDict)
      enhancement_config == IF bool(found) THEN found ELSE get(all, "default", EmptyDict)
      requirements == get(enhancement_config, "requirements", 0)
  IN IF Raised(all) THEN _get_fallback_enhancement_instructions(t)
     ELSE <<Line("h2", get(enhancement_config, "title", "ENHANCEMENT INSTRUCTIONS"), 0), Blank,
            Line("description", "", 0), Blank>>
          \o (IF requirements # 0
              THEN <<Line("h3", "Requirements:", 0)>> \o Items("requirement", requirements)
                   \o <<Blank>>
              ELSE <<>>)

\* PromptConfigLoader.format_enhancement_instructions: the lines of the block
format_enhancement_instructions(t) ==
  LET mapped_type == AliasMapping(t)
      all == config_get("enhancement_instructions")
      found == get(all, mapped_type, EmptyDict)
      enhancement_config == IF bool(found) THEN found ELSE get(all, "default", EmptyDict)
      requirements == get(enhancement_config, "requirements", 0)
  IN IF Raised(all) THEN _get_fallback_enhancement_instructions(t)
     ELSE <<Line("h2", get(enhancement_config, "title", "ENHANCEMENT INSTRUCTIONS"), 0), Blank,
            Line("description", "", 0), Blank>>
          \o (IF requirements # 0
              THEN <<Line("h3", "Requirements:", 0)>> \o Items("requirement", requirements)
                   \o <<Blank>>
              ELSE <<>>)

(***************************************************************************)
(* PromptConstructor.                                                      *)
(***************************************************************************)
ValidTypes == {"full_specification", "enhanced_prompt", "rephrase", "default"}

\* a plausible slip: the alias table applied, the fallback forgotten
MapTypeNoFallback(t) == AliasMapping(t)

\* PromptConstructor._map_enhancement_type
_map_enhancement_type(t) ==
  LET mapped_type == AliasMapping(t) IN
  IF mapped_type \notin ValidTypes THEN "enhanced_prompt" ELSE mapped_type

\* PromptConstructor._validate_inputs
_validate_inputs(user_input) == user_input.kind # "none"

\* a file descriptor, a layer, a node of a layer, an architecture given as a dict
FileInfo(keys, name, path, type) ==
  [kind |-> "dict", keys |-> keys, name |-> name, path |-> path, type |-> type]
Layer(keys, name, nodeCount, nodes) ==
  [kind |-> "dict", keys |-> keys, name |-> name, nodeCount |-> nodeCount, nodes |-> nodes]
LayerKeys == {"name", "nodeCount", "nodes"}
Node(name) == [kind |-> "dict", keys |-> {"name", "type"}, name |-> name, type |-> "component"]
ArchDict(keys, layers) == [kind |-> "dict", keys |-> keys, layers |-> layers]

\* the words of the user inputs considered, and str.lower() of each
Word(w) == Tok(w, 1)
lower(w) == IF w = "Add" THEN "add" ELSE w

\* the keywords of _analyze_task_characteristics that occur in a lowered word
Within(w) ==
  CASE w = "add" -> {"add"}
    [] w = "refactoring" -> {"refactor"}
    [] w = "fix bug" -> {"fix bug"}
    [] w = "testing" -> {"test", "testing"}
    [] OTHER -> {}

FeatureKeywords ==
  {"create", "add", "implement", "build", "develop", "new feature", "functionality"}
RefactorKeywords ==
  {"refactor", "improve", "optimize", "restructure", "clean up", "reorganize"}
TestingKeywords == {"test", "testing", "unit test", "integration test", "debug", "fix bug"}

\* any(keyword in user_input_lower for keyword in keywords)
involves(keywords, text) ==
  \E i \in 1..Len(text) : Within(lower(text[i].c)) \cap keywords # {}

\* the sentences of the 'Additional Context' block, by their opening words
ArchSentence == "You have access to the application's architecture context."
FeatureSentence == "Focus on feature development best practices"
RefactorSentence == "Emphasize code quality improvements"
TestingSentence == "Prioritize comprehensive testing strategies"

\* a system prompt: the base prompt and the sentences of 'Additional Context'
SystemPrompt(base, components) == [base |-> base, components |-> components]
NoSystemPrompt == SystemPrompt("", <<>>)

\* a plausible slip: the architecture sentence appended after the three of the task
ArchSentenceLast(user_input, etype, application_architecture) ==
  IF user_input.kind # "str"
  THEN SystemPrompt(get_system_prompt("default"), <<>>)
  ELSE SystemPrompt(get_system_prompt(etype),
         (IF involves(FeatureKeywords, user_input.text) THEN <<FeatureSentence>> ELSE <<>>)
         \o (IF involves(RefactorKeywords, user_input.text) THEN <<RefactorSentence>> ELSE <<>>)
         \o (IF involves(TestingKeywords, user_input.text) THEN <<TestingSentence>> ELSE <<>>)
         \o (IF bool(application_architecture) THEN <<ArchSentence>> ELSE <<>>))

\* PromptConstructor._generate_dynamic_system_prompt; user_input.lower() of a
\* value that is no str raises, and the except clause returns the default prompt
_generate_dynamic_system_prompt(user_input, etype, application_architecture) ==
  IF user_input.kind # "str"
  THEN SystemPrompt(get_system_prompt("default"), <<>>)
  ELSE SystemPrompt(get_system_prompt(etype),
         (IF bool(application_architecture) THEN <<ArchSentence>> ELSE <<>>)
         \o (IF involves(FeatureKeywords, user_input.text) THEN <<FeatureSentence>> ELSE <<>>)
         \o (IF involves(RefactorKeywords, user_input.text) THEN <<RefactorSentence>> ELSE <<>>)
         \o (IF involves(TestingKeywords, user_input.text) THEN <<TestingSentence>> ELSE <<>>))

\* a plausible slip: the configured value taken as it is, the other only for None
OrNone(v, d) == IF v.kind = "none" THEN d ELSE v

\* `v or d`
Or(v, d) == IF bool(v) THEN v ELSE d

\* list[:m]
UpTo(items, m) ==
  IF m >= 0 THEN SubSeq(items, 1, IF m < Len(items) THEN m ELSE Len(items))
  ELSE SubSeq(items, 1, IF Len(items) + m > 0 THEN Len(items) + m ELSE 0)

\* a returned value
Ok(value) == [kind |-> "ok", value |-> value]

RECURSIVE total_components(_)
\* lines 251-256: the sum of nodeCount over the layers that are dicts
total_components(layers) ==
  IF layers = <<>> THEN 0
  ELSE (IF Head(layers).kind = "dict" THEN get(Head(layers), "nodeCount", PyInt(0)).n ELSE 0)
       + total_components(Tail(layers))

\* what in a list of layers makes the try block of _format_architecture_context raise
LayerFault(layer) ==
  /\ layer.kind = "dict"
  /\ \/ get(layer, "nodeCount", PyInt(0)).kind # "int"
     \/ get(layer, "nodes", PyList(<<>>)).kind # "list"

\* the line of one node, lines 277-286
ComponentLine(node) ==
  IF node.kind = "dict"
  THEN Line("component", get(node, "name", "Unknown Component"), 0)
  ELSE Line("component", "str(node)", 0)

\* a plausible slip: the overflow line states the number of nodes, not the remainder
LayerLinesOverflowTotal(layer, max) ==
  LET nodes == get(layer, "nodes", PyList(<<>>)).items
      shown == UpTo(nodes, max)
  IN <<Line("layer", get(layer, "name", "Unknown Layer"), get(layer, "nodeCount", PyInt(0)).n)>>
     \o [i \in 1..Len(shown) |-> ComponentLine(shown[i])]
     \o (IF Len(nodes) > max THEN <<Line("more_components", "", Len(nodes))>> ELSE <<>>)
     \o <<Blank>>

\* lines 269-292: the lines of one layer that is a dict
LayerLines(layer, max) ==
  LET nodes == get(layer, "nodes", PyList(<<>>)).items
      shown == UpTo(nodes, max)
  IN <<Line("layer", get(layer, "name", "Unknown Layer"), get(layer, "nodeCount", PyInt(0)).n)>>
     \o [i \in 1..Len(shown) |-> ComponentLine(shown[i])]
     \o (IF Len(nodes) > max THEN <<Line("more_components", "", Len(nodes) - max)>> ELSE <<>>)
     \o <<Blank>>

RECURSIVE LayerDetails(_, _)
\* lines 264-292: the layers in order, those that are no dict skipped
LayerDetails(layers, max) ==
  IF layers = <<>> THEN <<>>
  ELSE (IF Head(layers).kind = "dict" THEN LayerLines(Head(layers), max) ELSE <<>>)
       \o LayerDetails(Tail(layers), max)

Overview(layers, total) == [kind |-> "overview", layers |-> layers, total |-> total]
NotRecognized == Line("text", "Architecture context available but format not recognized.", 0)
NotProcessed == Line("text", "Architecture context available but could not be processed.", 0)
Considerations == Line("text", "**Architectural Considerations:**", 3)

\* PromptConstructor._format_architecture_context: the lines of the text it returns
_format_architecture_context(application_architecture) ==
  LET a == application_architecture
      layers == IF a.kind = "list" THEN a ELSE get(a, "layers", PyList(<<>>))
      rule == get_validation_rule("max_components_per_layer")
      max_components_per_layer == Or(rule, PyInt(DefaultMaxComponents))
  IN IF ~bool(a) THEN <<>>
     ELSE IF a.kind \notin {"list", "dict"} THEN <<NotRecognized>>
     ELSE IF \/ layers.kind # "list"
             \/ \E i \in 1..Len(layers.items) : LayerFault(layers.items[i])
             \/ Raised(rule)
             \/ max_components_per_layer.kind # "int"
     THEN <<NotProcessed>>
     ELSE <<Overview(Len(layers.items), total_components(layers.items)), Blank>>
          \o LayerDetails(layers.items, max_components_per_layer.n)
          \o <<Considerations>>

\* the titles of the sections of the main prompt
HeaderTitle == "# VIBE CODING ASSISTANT - ENHANCED SPECIFICATION REQUEST"
RequestTitle == "## ORIGINAL USER REQUEST"
NfrTitle == "## NON-FUNCTIONAL REQUIREMENTS"
ArchTitle == "## APPLICATION ARCHITECTURE CONTEXT"
FilesTitle == "## CODEBASE CONTEXT"

\* the fenced user input, line 193
Fenced(user_input) == [kind |-> "fenced", v |-> user_input]
\* the line of one file, lines 218-220
FileLine(file_info) ==
  [kind |-> "file", text |-> get(file_info, "name", get(file_info, "path", "Unknown")),
   type |-> get(file_info, "type", "file")]

\* lines 196-202; enumerate() of a value that is no list raises
NfrSection(nfr_requirements) ==
  IF ~bool(nfr_requirements) THEN Ok(<<>>)
  ELSE IF nfr_requirements.kind # "list" THEN Raise("object is not iterable")
  ELSE Ok(<<Line("title", NfrTitle, 0), Line("text", "The following non-functional requirements must be incorporated:", 0)>>
          \o [i \in 1..Len(nfr_requirements.items) |->
                Line("requirement", nfr_requirements.items[i], i)]
          \o <<Blank>>)

\* lines 204-210
ArchSection(application_architecture) ==
  LET arch_context == _format_architecture_context(application_architecture) IN
  IF bool(application_architecture) /\ arch_context # <<>>
  THEN <<Line("title", ArchTitle, 0)>> \o arch_context \o <<Blank>>
  ELSE <<>>

\* lines 212-224; the rule is read with no try block around, len() and the
\* slice need a list and an int, and file_info.get needs a dict
FilesSection(file_context) ==
  LET rule == get_validation_rule("max_file_display")
      max_files == Or(rule, PyInt(DefaultMaxFileDisplay))
      files == file_context.items
      shown == UpTo(files, max_files.n)
  IN IF ~bool(file_context) THEN Ok(<<>>)
     ELSE IF Raised(rule) THEN Raise("object has no attribute 'get'")
     ELSE IF file_context.kind # "list" THEN Raise("object has no len()")
     ELSE IF max_files.kind # "int" THEN Raise("slice indices must be integers")
     ELSE IF \E i \in 1..Len(shown) : shown[i].kind # "dict"
     THEN Raise("object has no attribute 'get'")
     ELSE Ok(<<Line("title", FilesTitle, 0), Line("file_count", "", Len(files))>>
             \o [i \in 1..Len(shown) |-> FileLine(shown[i])]
             \o (IF Len(files) > max_files.n
                 THEN <<Line("more_files", "", Len(files) - max_files.n)>> ELSE <<>>)
             \o <<Blank>>)

\* PromptConstructor._build_main_prompt: the lines of the main prompt, or the
\* exception it raises
_build_main_prompt(user_input, nfr_requirements, file_context, application_architecture) ==
  LET nfr == NfrSection(nfr_requirements)
      files == FilesSection(file_context)
  IN IF Raised(nfr) THEN nfr
     ELSE IF Raised(files) THEN files
     ELSE Ok(<<Line("title", HeaderTitle, 0), Line("timestamp", "", 0), Blank,
               Line("title", RequestTitle, 0), Fenced(user_input), Blank>>
             \o nfr.value
             \o ArchSection(application_architecture)
             \o files.value)

\* lines 66-72: the number of layers; len() of None or of a number raises
arch_layers_count(application_architecture) ==
  LET a == application_architecture
      layers == get(a, "layers", PyList(<<>>))
  IN IF a.kind = "dict"
     THEN (IF layers.kind = "list" THEN Ok(Len(layers.items))
           ELSE Raise("object has no len()"))
     ELSE IF a.kind = "list" THEN Ok(Len(a.items))
     ELSE Ok(0)

\* `len(x) if x else 0`
count(x) == IF bool(x) THEN Len(x.items) ELSE 0

\* the 'metadata' entry of the constructed prompt (the timestamp left out)
Metadata(nfr_count, file_count, enabled, layers, t) ==
  [nfr_count |-> nfr_count, file_count |-> file_count, architecture_enabled |-> enabled,
   architecture_layers |-> layers, enhancement_type |-> t]
NoMetadata == Metadata(0, 0, FALSE, 0, "")

\* no constructed prompt; `error` is str(e) of the exception the construction raised
NoPrompt ==
  [built |-> FALSE, error |-> "", system_prompt |-> NoSystemPrompt, enhanced_prompt |-> <<>>,
   original_input |-> NoneV,
   enhancement_type |-> "", nfr_count |-> 0, file_count |-> 0,
   architecture_enabled |-> FALSE, architecture_layers |-> 0, metadata |-> NoMetadata]

\* PromptConstructor.construct_enhanced_prompt: the dict it returns, or the
\* exception it raises (the except clause of lines 94-96 raises it again)
construct_enhanced_prompt(user_input, nfr, files, arch, etype) ==
  LET mapped == _map_enhancement_type(etype)
      main_prompt == _build_main_prompt(user_input, nfr, files, arch)
      layers == arch_layers_count(arch)
  IN IF ~_validate_inputs(user_input)
     THEN [NoPrompt EXCEPT
             !.error = "Invalid input: user_input is required and must be non-empty"]
     ELSE IF Raised(main_prompt) THEN [NoPrompt EXCEPT !.error = main_prompt.error]
     ELSE IF Raised(layers) THEN [NoPrompt EXCEPT !.error = layers.error]
     ELSE [built |-> TRUE,
           error |-> "",
           system_prompt |-> _generate_dynamic_system_prompt(user_input, mapped, arch),
           enhanced_prompt |-> main_prompt.value \o <<Blank>>
                                 \o format_enhancement_instructions(mapped),
           original_input |-> user_input,
           enhancement_type |-> mapped,
           nfr_count |-> count(nfr),
           file_count |-> count(files),
           architecture_enabled |-> bool(arch),
           architecture_layers |-> layers.value,
           metadata |-> Metadata(count(nfr), count(files), bool(arch), layers.value, mapped)]

(***************************************************************************)
(* The LLM gateway, BedrockService.invoke_claude: what one invocation      *)
(* gives back.  "none" is a None response, "raise" an exception of the     *)
(* gateway, "text" the text of the model's answer.                         *)
(***************************************************************************)
RespTokens == {Sp, Ch}
Outcome(kind, text) == [kind |-> kind, text |-> text]
GatewayOutcomes ==
  {Outcome("none", <<>>), Outcome("raise", <<>>)}
  \cup {Outcome("text", t) : t \in TextsUpTo(RespTokens, MaxRespLen)}


\* a library call: the function and its arguments; none yet
NoCall == [fn |-> "", a |-> NoneV, b |-> NoneV]
Call(fn, a, b) == [fn |-> fn, a |-> a, b |-> b]

\* one file descriptor and one layer as the front end sends them
File1 == FileInfo({"name", "path", "type"}, "app.py", "src/app.py", "python")
Layer1 == Layer(LayerKeys, "API", PyInt(1), PyList(<<Node("routes")>>))

NoArgs ==
  [user_prompt |-> NoneV, nfr_requirements |-> NoneV, file_context |-> NoneV,
   application_architecture |-> NoneV, enhancement_type |-> "", return_string_only |-> FALSE,
   bedrock_service |-> TRUE]

\* what enhance_prompt returns: a dict with the keys of `keys`, or a bare string
NoResult ==
  [kind |-> "none", keys |-> {}, str |-> NoStr, original_input |-> NoneV,
   enhancement_type |-> "", metadata |-> NoMetadata, system_prompt |-> NoSystemPrompt,
   error |-> NoMsg, success |-> FALSE]

SuccessKeys ==
  {"enhanced_prompt", "original_input", "enhancement_type", "metadata", "system_prompt", "success"}
FailureKeys == {"enhanced_prompt", "original_input", "enhancement_type", "error", "success"}

\* enhance_prompt, lines 43-54: the value returned after a successful LLM call
SuccessResult(a, cp, enhanced_response) ==
  IF a.return_string_only
  THEN [NoResult EXCEPT !.kind = "str", !.str = PyStr("", enhanced_response, NoMsg)]
  ELSE [kind |-> "dict", keys |-> SuccessKeys, str |-> PyStr("", enhanced_response, NoMsg),
        original_input |-> a.user_prompt, enhancement_type |-> a.enhancement_type,
        metadata |-> cp.metadata, system_prompt |-> cp.system_prompt,
        error |-> NoMsg, success |-> TRUE]

\* a plausible slip: the failure envelope built with the success flag of the other
FailureFlaggedSuccess(a, e) ==
  IF a.return_string_only
  THEN [NoResult EXCEPT !.kind = "str", !.str = PyStr("Enhancement failed: ", <<>>, e)]
  ELSE [kind |-> "dict", keys |-> FailureKeys, str |-> PyStr("Enhancement failed: ", <<>>, e),
        original_input |-> a.user_prompt, enhancement_type |-> a.enhancement_type,
        metadata |-> NoMetadata, system_prompt |-> NoSystemPrompt,
        error |-> e, success |-> TRUE]

\* enhance_prompt, lines 56-69: the value returned when construction or invocation raised e
FailureResult(a, e) ==
  IF a.return_string_only
  THEN [NoResult EXCEPT !.kind = "str", !.str = PyStr("Enhancement failed: ", <<>>, e)]
  ELSE [kind |-> "dict", keys |-> FailureKeys, str |-> PyStr("Enhancement failed: ", <<>>, e),
        original_input |-> a.user_prompt, enhancement_type |-> a.enhancement_type,
        metadata |-> NoMetadata, system_prompt |-> NoSystemPrompt,
        error |-> e, success |-> FALSE]

(***************************************************************************)
(* The HTTP request and response.                                          *)
(***************************************************************************)
\* a JSON value given as custom_instructions: absent or null, a number, a string
Custom(kind, n, text) == [kind |-> kind, n |-> n, text |-> text]
NoCustom == Custom("none", 0, <<>>)

\* Python truthiness, `if custom_instructions:`
Truthy(v) ==
  CASE v.kind = "none" -> FALSE
    [] v.kind = "num" -> v.n # 0
    [] OTHER -> v.text # <<>>

\* isinstance(custom_instructions, str)
IsStr(v) == v.kind = "str"

NoData ==
  [has_prompt |-> FALSE, prompt |-> <<>>, enhancement_type |-> "",
   custom_instructions |-> NoCustom, requirements |-> PyList(<<>>),
   selected_files |-> PyList(<<>>), architecture_layers |-> PyList(<<>>),
   consider_architecture |-> FALSE, timeout |-> 0]

\* the 'error' entry of a response: the handler's text, then str(e)
HttpError(text, e) == [text |-> text, e |-> e]
NoError == HttpError("", NoMsg)

NoBody ==
  [keys |-> {}, error |-> NoError, enhanced |-> NoResult, original_input |-> <<>>,
   enhancement_type |-> "", custom_instructions_used |-> FALSE,
   custom_instructions_length |-> 0]

ErrorBody(text, e) == [NoBody EXCEPT !.keys = {"error"}, !.error = HttpError(text, e)]

\* no request received yet
IdleRequest ==
  /\ pc = "idle"
  /\ ep = "none"
  /\ args = NoArgs
  /\ constructed = NoPrompt
  /\ calls = <<>>
  /\ sleeps = <<>>
  /\ last_error = NoMsg
  /\ result = NoResult
  /\ log = <<>>
  /\ data = NoData
  /\ enhancement_type = ""
  /\ custom_instructions = NoCustom
  /\ status = 0
  /\ body = NoBody
  /\ clock = 0
  /\ timeout_occurred = FALSE
  /\ upstream = 0
  /\ events = <<>>

(***************************************************************************)
(* The graph store (services/neo4j_service.py).  `db` is the content of    *)
(* the Neo4j database: the main graph (the :Node nodes, the relationships  *)
(* between them, the :CustomLayer nodes) and the snapshots (:SavedGraph,   *)
(* :SavedNode and :SavedEdge nodes).  The timestamps are left out.         *)
(***************************************************************************)
GNode(id, nm, layer) ==
  [id |-> id, name |-> nm, description |-> "d", layer |-> layer, type |-> "NFR"]
GEdge(from_id, to_id, type) == [from_id |-> from_id, to_id |-> to_id, type |-> type]

\* lines 307-320: the first two sample nodes, which are also the nodes the
\* requests create
Usability == GNode("ux.usability", "Usability", "UX")
LowLatency == GNode("infra.low_latency", "Low Latency", "Infrastructure")
NodeValues == {Usability, LowLatency}
\* line 369
DependsOn == GEdge("ux.usability", "infra.low_latency", "DEPENDS_ON")
EdgeValues == {DependsOn}
LayerNames == {"Custom"}
GraphNames == {"g1", "g2"}

\* lines 307-379, cut down to the nodes of NodeValues and the edge between them
sample_nodes == <<Usability, LowLatency>>
sample_edges == <<DependsOn>>

SavedNode(graph_name, n) ==
  [graph_name |-> graph_name, id |-> n.id, name |-> n.name,
   description |-> n.description, layer |-> n.layer, type |-> n.type]
SavedEdge(graph_name, e) ==
  [graph_name |-> graph_name, from_id |-> e.from_id, to_id |-> e.to_id, type |-> e.type]
\* the node and the edge a saved record stands for (lines 636-643, 662-664)
NodeOf(sn) == [id |-> sn.id, name |-> sn.name, description |-> sn.description,
               layer |-> sn.layer, type |-> sn.type]
EdgeOf(se) == [from_id |-> se.from_id, to_id |-> se.to_id, type |-> se.type]

EmptyDb ==
  [nodes |-> {}, edges |-> {}, custom_layers |-> {},
   saved_graphs |-> {}, saved_nodes |-> {}, saved_edges |-> {}]

HasNode(d, id) == \E n \in d.nodes : n.id = id

\* lines 141-189
get_all_nodes_and_edges(d) ==
  [nodes |-> d.nodes,
   edges |-> {e \in d.edges : HasNode(d, e.from_id) /\ HasNode(d, e.to_id)}]

\* lines 57-98: MERGE (n:Node {id}) SET the properties
create_node(d, node_data) ==
  [d EXCEPT !.nodes = {n \in @ : n.id # node_data.id} \cup {node_data}]

\* lines 100-139: MATCH both ends, MERGE the relationship
create_edge(d, e) ==
  IF HasNode(d, e.from_id) /\ HasNode(d, e.to_id)
  THEN [d EXCEPT !.edges = @ \cup {e}]
  ELSE d

\* a plausible slip: MATCH (n) DETACH DELETE n, without the WHERE clause
ClearEverything(d) == EmptyDb

\* lines 284-303: MATCH (n) WHERE NOT n:SavedGraph AND NOT n:SavedNode AND
\* NOT n:SavedEdge DETACH DELETE n
clear_all_data(d) ==
  [d EXCEPT !.nodes = {}, !.edges = {}, !.custom_layers = {}]

RECURSIVE create_nodes(_, _)
create_nodes(d, q) ==
  IF q = <<>> THEN d ELSE create_nodes(create_node(d, Head(q)), Tail(q))
RECURSIVE create_edges(_, _)
create_edges(d, q) ==
  IF q = <<>> THEN d ELSE create_edges(create_edge(d, Head(q)), Tail(q))

\* lines 305-407
populate_sample_data(d) ==
  create_edges(create_nodes(clear_all_data(d), sample_nodes), sample_edges)

\* a plausible slip: the records an older snapshot of that name left are kept
SaveKeepingOlder(d, graph_name, graph_data, graph_type) ==
  [d EXCEPT
     !.saved_nodes = @ \cup {SavedNode(graph_name, n) : n \in graph_data.nodes},
     !.saved_edges = @ \cup {SavedEdge(graph_name, e) : e \in graph_data.edges},
     !.saved_graphs = {sg \in @ : sg.name # graph_name}
                       \cup {[name |-> graph_name, graph_type |-> graph_type]}]

\* lines 409-503: the records of that name are deleted, then the SavedGraph,
\* a SavedNode for every node and a SavedEdge for every edge are created
save_graph(d, graph_name, graph_data, graph_type) ==
  [d EXCEPT
     !.saved_nodes = {sn \in @ : sn.graph_name # graph_name}
                       \cup {SavedNode(graph_name, n) : n \in graph_data.nodes},
     !.saved_edges = {se \in @ : se.graph_name # graph_name}
                       \cup {SavedEdge(graph_name, e) : e \in graph_data.edges},
     !.saved_graphs = {sg \in @ : sg.name # graph_name}
                       \cup {[name |-> graph_name, graph_type |-> graph_type]}]

HasSavedGraph(d, graph_name) == \E sg \in d.saved_graphs : sg.name = graph_name
SavedNodesOf(d, graph_name) == {sn \in d.saved_nodes : sn.graph_name = graph_name}
SavedEdgesOf(d, graph_name) == {se \in d.saved_edges : se.graph_name = graph_name}

\* lines 632-651: MERGE (n:Node {id}) SET the properties, for every SavedNode
MergeSavedNodes(d, graph_name) ==
  [d EXCEPT !.nodes =
     {n \in @ : \A sn \in SavedNodesOf(d, graph_name) : sn.id # n.id}
       \cup {NodeOf(sn) : sn \in SavedNodesOf(d, graph_name)}]
\* lines 653-673: MATCH both ends, MERGE the relationship, for every SavedEdge
MergeSavedEdges(d, graph_name) ==
  [d EXCEPT !.edges = @ \cup
     {EdgeOf(se) : se \in {x \in SavedEdgesOf(d, graph_name) :
                             HasNode(d, x.from_id) /\ HasNode(d, x.to_id)}}]

\* lines 611-679: [ok, db]
load_graph(d, graph_name) ==
  IF ~HasSavedGraph(d, graph_name) THEN [ok |-> FALSE, db |-> d]
  ELSE [ok |-> TRUE, db |-> MergeSavedEdges(MergeSavedNodes(d, graph_name), graph_name)]

\* lines 681-710, 460-496.  save_graph creates no CONTAINS_NODE and no CONTAINS_EDGE
\* relationship, so both OPTIONAL MATCH clauses bind null and DETACH DELETE
\* g, n, e deletes the SavedGraph node alone.
ContainedNodes(d, graph_name) == {}
ContainedEdges(d, graph_name) == {}
delete_saved_graph(d, graph_name) ==
  IF ~HasSavedGraph(d, graph_name) THEN [ok |-> FALSE, db |-> d]
  ELSE [ok |-> TRUE,
        db |-> [d EXCEPT !.saved_graphs = {sg \in @ : sg.name # graph_name},
                         !.saved_nodes = @ \ ContainedNodes(d, graph_name),
                         !.saved_edges = @ \ ContainedEdges(d, graph_name)]]

(***************************************************************************)
(* import_graph_data.  The payload is a JSON value: `kind` is its type,    *)
(* `keys` the fields an object has.                                        *)
(***************************************************************************)
JList(items) == [kind |-> "list", items |-> items]
JStr == [kind |-> "str", items |-> <<>>]
JNode(n, keys) == [kind |-> "dict", keys |-> keys, id |-> n.id, name |-> n.name,
                   description |-> n.description, layer |-> n.layer, type |-> n.type]
JEdge(e) == [kind |-> "dict", keys |-> {"from_id", "to_id", "type"},
             from_id |-> e.from_id, to_id |-> e.to_id, type |-> e.type]
NodeFields == {"id", "name", "description", "layer", "type"}
GraphData(kind, keys, node_list, edge_list, layer_list) ==
  [kind |-> kind, keys |-> keys, nodes |-> node_list, edges |-> edge_list,
   custom_layers |-> layer_list]
ImportData(kind, keys, graph_data) ==
  [kind |-> kind, keys |-> keys, graph_data |-> graph_data]

GoodGraph ==
  GraphData("dict", {"nodes", "edges", "custom_layers"},
            JList(<<JNode(Usability, NodeFields), JNode(LowLatency, NodeFields)>>),
            JList(<<JEdge(DependsOn)>>), <<"Custom">>)
SmallGraph ==
  GraphData("dict", {"nodes", "edges"},
            JList(<<JNode(LowLatency, NodeFields)>>),
            JList(<<>>), <<>>)
ValidPayloads ==
  {ImportData("dict", {"graph_data", "format_version"}, GoodGraph),
   ImportData("dict", {"graph_data"}, SmallGraph)}
InvalidPayloads ==
  {ImportData("list", {}, GoodGraph),
   ImportData("dict", {"format_version"}, GoodGraph),
   ImportData("dict", {"graph_data"}, [GoodGraph EXCEPT !.kind = "list"]),
   ImportData("dict", {"graph_data"}, [GoodGraph EXCEPT !.keys = {"edges"}]),
   ImportData("dict", {"graph_data"}, [GoodGraph EXCEPT !.nodes = JStr]),
   ImportData("dict", {"graph_data"}, [GoodGraph EXCEPT !.keys = {"nodes"}]),
   ImportData("dict", {"graph_data"}, [GoodGraph EXCEPT !.edges = JStr]),
   \* a duplicate node ID
   ImportData("dict", {"graph_data"},
              [GoodGraph EXCEPT !.nodes = JList(<<JNode(Usability, NodeFields),
                                                 JNode(LowLatency, NodeFields),
                                                 JNode(Usability, NodeFields)>>)]),
   \* an edge whose to_id is no node of the payload
   ImportData("dict", {"graph_data"},
              [GoodGraph EXCEPT !.nodes = JList(<<JNode(Usability, NodeFields)>>)]),
   \* a node without a name
   ImportData("dict", {"graph_data"},
              [SmallGraph EXCEPT !.nodes = JList(<<JNode(LowLatency, NodeFields \ {"name"})>>)])}
Payloads == ValidPayloads \cup InvalidPayloads

\* lines 1249-1266: the IDs of the nodes up to index i
node_ids(node_list, i) ==
  {node_list[j].id : j \in {k \in 1..i : node_list[k].kind = "dict" /\ "id" \in node_list[k].keys}}

\* lines 1250-1266
NodeErrors(node_list) ==
  {"Node must be an object" : i \in {k \in 1..Len(node_list) : node_list[k].kind # "dict"}}
  \cup {"Node missing required field" :
          i \in {k \in 1..Len(node_list) :
                   /\ node_list[k].kind = "dict"
                   /\ ~({"id", "name", "layer", "type"} \subseteq node_list[k].keys)}}
  \cup {"Duplicate node ID" :
          i \in {k \in 1..Len(node_list) :
                   /\ node_list[k].kind = "dict"
                   /\ "id" \in node_list[k].keys
                   /\ node_list[k].id \in node_ids(node_list, k - 1)}}

\* lines 1269-1286
EdgeErrors(edge_list, ids) ==
  {"Edge must be an object" : i \in {k \in 1..Len(edge_list) : edge_list[k].kind # "dict"}}
  \cup {"Edge missing required field" :
          i \in {k \in 1..Len(edge_list) :
                   /\ edge_list[k].kind = "dict"
                   /\ ~({"from_id", "to_id", "type"} \subseteq edge_list[k].keys)}}
  \cup {"Edge references non-existent from_id" :
          i \in {k \in 1..Len(edge_list) :
                   /\ edge_list[k].kind = "dict"
                   /\ "from_id" \in edge_list[k].keys
                   /\ edge_list[k].from_id \notin ids}}
  \cup {"Edge references non-existent to_id" :
          i \in {k \in 1..Len(edge_list) :
                   /\ edge_list[k].kind = "dict"
                   /\ "to_id" \in edge_list[k].keys
                   /\ edge_list[k].to_id \notin ids}}

Validation(errors) == [valid |-> errors = {}, errors |-> errors, success |-> FALSE]

\* lines 1208-1297
_validate_import_data(import_data) ==
  IF import_data.kind # "dict" THEN Validation({"Import data must be a JSON object"})
  ELSE IF "graph_data" \notin import_data.keys
    THEN Validation({"Missing required field: graph_data"})
  ELSE LET graph_data == import_data.graph_data IN
    IF graph_data.kind # "dict" THEN Validation({"graph_data must be an object"})
    ELSE LET structure ==
               (IF "nodes" \notin graph_data.keys
                  THEN {"Missing required field: graph_data.nodes"}
                ELSE IF graph_data.nodes.kind # "list"
                  THEN {"graph_data.nodes must be an array"} ELSE {})
               \cup
               (IF "edges" \notin graph_data.keys
                  THEN {"Missing required field: graph_data.edges"}
                ELSE IF graph_data.edges.kind # "list"
                  THEN {"graph_data.edges must be an array"} ELSE {})
         IN IF structure # {} THEN Validation(structure)
            ELSE Validation(
                   NodeErrors(graph_data.nodes.items)
                   \cup EdgeErrors(graph_data.edges.items,
                                   node_ids(graph_data.nodes.items,
                                            Len(graph_data.nodes.items))))

\* lines 1082-1093
RECURSIVE import_layers(_, _)
import_layers(d, q) ==
  IF q = <<>> THEN d
  ELSE import_layers([d EXCEPT !.custom_layers = @ \cup {Head(q)}], Tail(q))
\* lines 1096-1145: an existing node is updated, another one created; a node
\* without a description raises KeyError, which is recorded and skipped
RECURSIVE import_nodes(_, _)
import_nodes(d, q) ==
  IF q = <<>> THEN d
  ELSE import_nodes(IF "description" \in Head(q).keys
                      THEN create_node(d, NodeOf(Head(q))) ELSE d,
                    Tail(q))
\* lines 1148-1184
RECURSIVE import_edges(_, _)
import_edges(d, q) ==
  IF q = <<>> THEN d ELSE import_edges(create_edge(d, EdgeOf(Head(q))), Tail(q))

\* lines 1062-1202: the import proper, once the payload is accepted
ImportInto(d, import_data, graph_name, clear_existing) ==
  LET graph_data == import_data.graph_data
      cleared == IF clear_existing THEN clear_all_data(d) ELSE d
      layered == import_layers(cleared, IF "custom_layers" \in graph_data.keys
                                          THEN graph_data.custom_layers ELSE <<>>)
      noded == import_nodes(layered, graph_data.nodes.items)
      edged == import_edges(noded, graph_data.edges.items)
  IN IF graph_name # ""
       THEN save_graph(edged, graph_name, get_all_nodes_and_edges(edged), "nfr")
       ELSE edged

ImportDone == [valid |-> TRUE, errors |-> {}, success |-> TRUE]

\* a plausible slip: the existing data cleared before the payload is validated
ImportClearingFirst(d, import_data, graph_name, clear_existing, validate_only) ==
  LET validation_result == _validate_import_data(import_data)
      cleared == IF clear_existing THEN clear_all_data(d) ELSE d
  IN IF ~validation_result.valid THEN [result |-> validation_result, db |-> cleared]
     ELSE IF validate_only THEN [result |-> validation_result, db |-> d]
     ELSE [result |-> ImportDone,
           db |-> ImportInto(d, import_data, graph_name, clear_existing)]

\* lines 1047-1206: [result, db]; graph_name is "" when none is given
import_graph_data(d, import_data, graph_name, clear_existing, validate_only) ==
  LET validation_result == _validate_import_data(import_data) IN
  IF ~validation_result.valid THEN [result |-> validation_result, db |-> d]
  ELSE IF validate_only THEN [result |-> validation_result, db |-> d]
  ELSE [result |-> ImportDone,
        db |-> ImportInto(d, import_data, graph_name, clear_existing)]

GraphCall(op, graph_name, clear_existing, status_code) ==
  [op |-> op, name |-> graph_name, clear_existing |-> clear_existing,
   status |-> status_code]
NoGraphCall == GraphCall("", "", FALSE, 0)
Tokens == {"t1", "t2"}
Requests == {1, 2}
NoToken == "None"
\* lines 12-14
NewGitHubService == [github |-> NoToken, token |-> NoToken]
IdleGitHubRequest == [phase |-> "idle", github_token |-> NoToken, served |-> NoToken]

\* the application started with an empty database and no repository request
EmptyStore ==
  /\ db = EmptyDb
  /\ graph_call = NoGraphCall
  /\ environ = NoToken
  /\ github_service = NewGitHubService
  /\ github_requests = [r \in Requests |-> IdleGitHubRequest]

\* the application started where no backing file is found: the built-in catalog
Init ==
  /\ IdleRequest
  /\ backing_file = File("missing", NoneV)
  /\ config = _load_config(File("missing", NoneV))
  /\ call = NoCall
  /\ ret = NoneV
  /\ EmptyStore

(***************************************************************************)
(* A direct call of PromptService.enhance_prompt.                          *)
(***************************************************************************)
EnhancementTypes ==
  LegacyAliases \cup ValidTypes \cup {"bogus", "custom"}

UserPrompts == {NoneV, StrV(<<Ch>>)}
\* the context given along: nothing, or one requirement, one file and one layer
Contexts ==
  {<<PyList(<<>>), PyList(<<>>), PyList(<<>>)>>,
   <<PyList(<<"r1">>), PyList(<<File1>>), PyList(<<Layer1>>)>>}

DirectCall ==
  /\ pc = "idle"
  /\ UNCHANGED <<lib_vars, store_vars>>
  /\ \E up \in UserPrompts, ctx \in Contexts, t \in EnhancementTypes,
        rso \in BOOLEAN, b \in BOOLEAN :
       args' = [user_prompt |-> up, nfr_requirements |-> ctx[1], file_context |-> ctx[2],
                application_architecture |-> ctx[3], enhancement_type |-> t,
                return_string_only |-> rso, bedrock_service |-> b]
  /\ ep' = "direct"
  /\ pc' = "svc_construct"
  /\ UNCHANGED <<constructed, calls, sleeps, last_error, result, log, http_vars, stream_vars>>

(***************************************************************************)
(* PromptService.enhance_prompt, in the three steps of its try block:      *)
(* construction, the entry of _invoke_llm_with_retry, and the attempts.    *)
(* An exception of any step is caught by the except clause of              *)
(* enhance_prompt, which returns the failure result.                       *)
(***************************************************************************)
enhance_prompt_construct ==
  /\ pc = "svc_construct"
  /\ UNCHANGED <<lib_vars, store_vars>>
  /\ LET constructed_prompt ==
           construct_enhanced_prompt(args.user_prompt, args.nfr_requirements,
             args.file_context, args.application_architecture, args.enhancement_type)
     IN
     IF ~constructed_prompt.built
     THEN /\ result' = FailureResult(args, Msg(constructed_prompt.error))
          /\ pc' = "svc_ret"
          /\ UNCHANGED <<constructed, log>>
     ELSE /\ constructed' = constructed_prompt
          /\ log' = Append(log, "construct")
          /\ pc' = "svc_invoke"
          /\ UNCHANGED result
  /\ UNCHANGED <<ep, args, calls, sleeps, last_error, http_vars, stream_vars>>

\* _invoke_llm_with_retry, lines 82-92: the checks before the loop
_invoke_llm_with_retry_enter ==
  /\ pc = "svc_invoke"
  /\ UNCHANGED <<lib_vars, store_vars>>
  /\ IF ~args.bedrock_service
     THEN /\ result' = FailureResult(args, Msg("BedrockService not available"))
          /\ pc' = "svc_ret"
     ELSE IF constructed.enhanced_prompt = <<>>
     THEN /\ result' = FailureResult(args, Msg("No prompt found in constructed_prompt"))
          /\ pc' = "svc_ret"
     ELSE /\ pc' = "svc_attempt"
          /\ UNCHANGED result
  /\ UNCHANGED <<ep, args, constructed, calls, sleeps, last_error, log, http_vars, stream_vars>>

\* a plausible slip: a blank answer taken for a good one
BlankAccepted(response) == response.kind = "text" /\ response.text # <<>>

\* line 106: `if response and response.strip()`
ResponseAccepted(response) == response.kind = "text" /\ strip(response.text) # <<>>

\* str(e) of the exception one failed attempt leaves in last_error
AttemptError(response) ==
  IF response.kind = "raise"
  THEN Msg("Error invoking Claude model")
  ELSE Msg("Empty response from LLM")

\* a plausible slip: the exponent counted from 1
WaitFromTwo(attempt) == Pow(BackoffBase, attempt + 1)

\* line 118: wait_time = 2 ** attempt
wait_time(attempt) == Pow(BackoffBase, attempt)

\* a plausible slip: the index of the last attempt reported for the attempt count
ErrorMsgCountsFromZero(max_retries, last) == AggregatedMsg(max_retries - 1, last)

\* line 124: error_msg, built from max_retries and str(last_error)
error_msg(max_retries, last) == AggregatedMsg(max_retries, last)

\* a plausible slip: the loop sleeps after its last attempt too
SleepsAfterLast(attempt, max_retries) == attempt < max_retries

\* line 116: `if attempt < max_retries - 1`
SleepsBeforeNext(attempt, max_retries) == attempt < max_retries - 1

\* one turn of the loop of _invoke_llm_with_retry (lines 94-126), attempt = Len(calls):
\* the call, then the return of the stripped answer, or the failure, the sleep
\* before the next attempt and, after the last attempt, the aggregated error
_invoke_llm_with_retry_attempt ==
  /\ pc = "svc_attempt"
  /\ UNCHANGED <<lib_vars, store_vars>>
  /\ Len(calls) < MaxRetries
  /\ \E response \in GatewayOutcomes :
       LET attempt == Len(calls) IN
       /\ calls' = Append(calls, response)
       /\ log' = Append(log, "invoke")
       /\ IF ResponseAccepted(response)
          THEN /\ result' = SuccessResult(args, constructed, strip(response.text))
               /\ pc' = "svc_ret"
               /\ UNCHANGED <<sleeps, last_error>>
          ELSE /\ last_error' = AttemptError(response)
               /\ sleeps' = IF SleepsBeforeNext(attempt, MaxRetries)
                               THEN Append(sleeps, wait_time(attempt))
                               ELSE sleeps
               /\ IF attempt + 1 < MaxRetries
                  THEN /\ pc' = "svc_attempt"
                       /\ UNCHANGED result
                  ELSE /\ result' =
                            FailureResult(args,
                              error_msg(MaxRetries, AttemptError(response).text))
                       /\ pc' = "svc_ret"
  /\ UNCHANGED <<ep, args, constructed, http_vars, stream_vars>>

(***************************************************************************)
(* /api/enhance-prompt and /api/enhance-prompt-with-architecture.          *)
(***************************************************************************)
\* the heads of the custom instructions tried: nothing, a blank, a script block,
\* a javascript: URI, an opening script tag that is never closed
CustomHeads == {<<>>, <<Sp>>, <<ScriptOpen, Ch, ScriptClose>>, <<JsUri>>, <<ScriptOpen>>}

\* after each head: nothing, one character, or the run of characters that brings
\* the whole text to MaxCustomLen characters, or to one more
CustomTexts ==
  UNION {{h} \cup {h \o <<Tok(c, k)>> :
                    c \in {"a", " "},
                    k \in {1, MaxCustomLen - len(h), MaxCustomLen - len(h) + 1}}
         : h \in CustomHeads}

CustomValues ==
  {NoCustom, Custom("num", 0, <<>>), Custom("num", 7, <<>>)}
  \cup {Custom("str", 0, t) : t \in CustomTexts}

HandlerTypes == {"enhanced_prompt", "maximum_detail", "bogus"}
Handlers == {"plain", "arch"}

Receive ==
  /\ pc = "idle"
  /\ UNCHANGED <<lib_vars, store_vars>>
  /\ \E e \in Handlers, hp \in BOOLEAN, t \in HandlerTypes, ci \in CustomValues,
        ctx \in Contexts, ca \in BOOLEAN :
       /\ ep' = e
       /\ data' = [has_prompt |-> hp, prompt |-> IF hp THEN <<Ch>> ELSE <<>>,
                   enhancement_type |-> t, custom_instructions |-> ci,
                   requirements |-> ctx[1], selected_files |-> ctx[2],
                   architecture_layers |-> ctx[3], consider_architecture |-> ca,
                   timeout |-> 0]
  /\ pc' = "validate"
  /\ UNCHANGED <<log, svc_vars, enhancement_type, custom_instructions, status, body, stream_vars>>

\* a plausible slip: `>=` for `>` in the length check
TooLongFrom2000(text) == len(text) >= MaxCustomLen

\* app.py line 331: `if len(custom_instructions) > 2000`
TooLong(text) == len(text) > MaxCustomLen

\* a plausible slip: the text is not looked at again after the sanitization
ValidationErrorUnsanitized(d) ==
  LET ci == d.custom_instructions IN
  IF ~d.has_prompt THEN "Prompt is required"
  ELSE IF ~Truthy(ci) THEN ""
  ELSE IF ~IsStr(ci) THEN "Custom instructions must be a string"
  ELSE IF TooLong(ci.text) THEN "Custom instructions must be 2000 characters or less"
  ELSE ""

\* app.py lines 315-345 (and 442-474): the 400 message of a request, "" when it
\* passes the validation
ValidationError(d) ==
  LET ci == d.custom_instructions IN
  IF ~d.has_prompt THEN "Prompt is required"
  ELSE IF ~Truthy(ci) THEN ""
  ELSE IF ~IsStr(ci) THEN "Custom instructions must be a string"
  ELSE IF TooLong(ci.text) THEN "Custom instructions must be 2000 characters or less"
  ELSE IF sanitize(ci.text) = <<>> THEN "Custom instructions cannot be empty after sanitization"
  ELSE ""

\* the handler up to its logging of the request: the 400 answers, else
\* the locals enhancement_type and custom_instructions
Validate ==
  /\ pc = "validate"
  /\ UNCHANGED <<lib_vars, store_vars>>
  /\ ep \in Handlers
  /\ LET ci == data.custom_instructions
         err == ValidationError(data)
     IN IF err # ""
        THEN /\ status' = 400
             /\ body' = ErrorBody(err, NoMsg)
             /\ pc' = "done"
             /\ UNCHANGED <<enhancement_type, custom_instructions>>
        ELSE /\ custom_instructions' =
                  IF Truthy(ci) THEN Custom("str", 0, sanitize(ci.text)) ELSE ci
             /\ enhancement_type' = IF Truthy(ci) THEN "custom" ELSE data.enhancement_type
             /\ pc' = "probe"
             /\ UNCHANGED <<status, body>>
  /\ UNCHANGED <<ep, log, svc_vars, data, stream_vars>>

\* a plausible slip: the answer of the probe is not looked at
ProbeIgnored(ok) == FALSE

\* app.py lines 362, 493, 620: `if not bedrock_service.test_connection()`
Unavailable(ok) == ~ok

\* the connectivity probe answers ok, and the handler answers 503 or goes on
test_connection ==
  /\ pc = "probe"
  /\ UNCHANGED <<lib_vars, store_vars>>
  /\ \E ok \in BOOLEAN :
       /\ log' = Append(log, IF ok THEN "probe:true" ELSE "probe:false")
       /\ IF Unavailable(ok)
          THEN /\ status' = 503
               /\ body' = ErrorBody("AI service temporarily unavailable", NoMsg)
               /\ pc' = "done"
          ELSE /\ pc' = IF ep = "stream" THEN "stream_construct" ELSE "call"
               /\ UNCHANGED <<status, body>>
  /\ UNCHANGED <<ep, svc_vars, data, enhancement_type, custom_instructions, stream_vars>>

\* the parameters of PromptService.enhance_prompt (prompt_service.py lines 17-25)
EnhancePromptParams ==
  {"user_prompt", "nfr_requirements", "file_context", "application_architecture",
   "enhancement_type", "return_string_only"}

\* the keywords the handlers pass (app.py lines 370-377 and 516-524)
CallKeywords(e) ==
  {"user_prompt", "nfr_requirements", "file_context", "application_architecture",
   "enhancement_type", "custom_instructions"}
  \cup (IF e = "arch" THEN {"return_string_only"} ELSE {})

\* the text the inner except clause of each handler puts before str(e)
ServiceFailureText(e) ==
  IF e = "arch" THEN "Failed to build architecture-enhanced prompt: "
  ELSE "Failed to enhance prompt: "

\* the call of prompt_service.enhance_prompt: Python binds the keywords to the
\* parameters first, and a keyword that is no parameter raises TypeError before
\* the body of enhance_prompt runs; the handler's inner except answers 500
CallService ==
  /\ pc = "call"
  /\ UNCHANGED <<lib_vars, store_vars>>
  /\ ep \in Handlers
  /\ IF CallKeywords(ep) \ EnhancePromptParams # {}
     THEN /\ status' = 500
          /\ body' = ErrorBody(ServiceFailureText(ep),
                        Msg("enhance_prompt() got an unexpected keyword argument"))
          /\ pc' = "done"
          /\ UNCHANGED args
     ELSE /\ args' = [user_prompt |-> StrV(data.prompt),
                      nfr_requirements |-> data.requirements,
                      file_context |-> data.selected_files,
                      application_architecture |->
                        IF ep = "arch" /\ data.consider_architecture
                        THEN data.architecture_layers ELSE NoneV,
                      enhancement_type |-> enhancement_type,
                      return_string_only |-> (ep = "arch"),
                      bedrock_service |-> TRUE]
          /\ pc' = "svc_construct"
          /\ UNCHANGED <<status, body>>
  /\ UNCHANGED <<ep, log, constructed, calls, sleeps, last_error, result, data,
                 enhancement_type, custom_instructions, stream_vars>>

\* the 200 answer of the two handlers (app.py lines 397-422 and 555-572)
SuccessBody(e) ==
  [keys |-> IF e = "arch"
            THEN {"enhanced_prompt", "original_input", "enhancement_type",
                  "complexity_analysis", "integration_status", "metadata", "success"}
            ELSE {"enhanced_specification", "original_input", "enhancement_type",
                  "metadata", "logs"},
   error |-> NoError,
   enhanced |-> result,
   original_input |-> data.prompt,
   enhancement_type |-> enhancement_type,
   custom_instructions_used |-> Truthy(custom_instructions),
   custom_instructions_length |->
     IF Truthy(custom_instructions) THEN len(custom_instructions.text) ELSE 0]

\* enhance_prompt returns to its caller; a handler then answers 200
enhance_prompt_return ==
  /\ pc = "svc_ret"
  /\ UNCHANGED <<lib_vars, store_vars>>
  /\ pc' = "done"
  /\ IF ep = "direct"
     THEN UNCHANGED <<status, body>>
     ELSE /\ status' = 200
          /\ body' = SuccessBody(ep)
  /\ UNCHANGED <<ep, log, svc_vars, data, enhancement_type, custom_instructions, stream_vars>>

(***************************************************************************)
(* /api/stream-response.                                                   *)
(***************************************************************************)
ReceiveStream ==
  /\ pc = "idle"
  /\ UNCHANGED <<lib_vars, store_vars>>
  /\ \E hp \in BOOLEAN, t \in HandlerTypes, to \in 1..MaxClock :
       data' = [NoData EXCEPT !.has_prompt = hp, !.prompt = IF hp THEN <<Ch>> ELSE <<>>,
                              !.enhancement_type = t, !.timeout = to]
  /\ ep' = "stream"
  /\ pc' = "stream_validate"
  /\ UNCHANGED <<log, svc_vars, enhancement_type, custom_instructions, status, body, stream_vars>>

\* stream_response, lines 590-613
stream_response_validate ==
  /\ pc = "stream_validate"
  /\ UNCHANGED <<lib_vars, store_vars>>
  /\ IF ~data.has_prompt
     THEN /\ status' = 400
          /\ body' = ErrorBody("Prompt is required", NoMsg)
          /\ pc' = "done"
          /\ UNCHANGED enhancement_type
     ELSE /\ enhancement_type' = data.enhancement_type
          /\ pc' = "probe"
          /\ UNCHANGED <<status, body>>
  /\ UNCHANGED <<ep, log, svc_vars, data, custom_instructions, stream_vars>>

\* stream_response, lines 626-719: the system prompt is constructed and the
\* streaming response is handed to the framework
stream_response_construct ==
  /\ pc = "stream_construct"
  /\ UNCHANGED <<lib_vars, store_vars>>
  /\ constructed' = construct_enhanced_prompt(StrV(data.prompt), NoneV, NoneV, NoneV, enhancement_type)
  /\ log' = Append(log, "construct")
  /\ status' = 200
  /\ pc' = "stream_start"
  /\ UNCHANGED <<ep, args, calls, sleeps, last_error, result, data, enhancement_type,
                 custom_instructions, body, stream_vars>>

Sse(type, text) == [type |-> type, text |-> text]
\* a plausible slip: the timeout reported as any other failure, with str(e)
TimeoutAsGenericError == Sse("error", "str(e)")

\* line 691
TimeoutEvent == Sse("error", "Request timeout - please try again")
ErrorEvent == Sse("error", "str(e)")
DoneEvent == Sse("done", "")
ChunkEvent == Sse("chunk", "delta.text")

\* invoke_claude_streaming, lines 111-151: the timer is started and the stream
\* is opened; an exception of invoke_model_with_response_stream ends generate()
\* with an error event
invoke_claude_streaming_open ==
  /\ pc = "stream_start"
  /\ UNCHANGED <<lib_vars, store_vars>>
  /\ log' = Append(log, "stream")
  /\ \E opened \in BOOLEAN :
       IF opened
       THEN /\ pc' = "streaming"
            /\ UNCHANGED events
       ELSE /\ events' = Append(events, ErrorEvent)
            /\ pc' = "done"
  /\ UNCHANGED <<ep, svc_vars, http_vars, clock, timeout_occurred, upstream>>

\* time passes while the stream is open
Tick ==
  /\ pc = "streaming"
  /\ UNCHANGED <<lib_vars, store_vars>>
  /\ clock < MaxClock
  /\ clock' = clock + 1
  /\ UNCHANGED <<pc, ep, log, svc_vars, http_vars, timeout_occurred, upstream, events>>

\* the threading.Timer set to `timeout` seconds runs timeout_handler
timeout_handler ==
  /\ pc = "streaming"
  /\ UNCHANGED <<lib_vars, store_vars>>
  /\ clock >= data.timeout
  /\ ~timeout_occurred
  /\ timeout_occurred' = TRUE
  /\ UNCHANGED <<pc, ep, log, svc_vars, http_vars, clock, upstream, events>>

UpstreamKinds == {"content_block_delta", "message_delta", "message_stop"}

\* invoke_claude_streaming, lines 157-189, and generate(), lines 653-691: the
\* loop takes one event of the upstream stream
upstream_event ==
  /\ pc = "streaming"
  /\ UNCHANGED <<lib_vars, store_vars>>
  /\ upstream < MaxStreamEvents
  /\ upstream' = upstream + 1
  /\ \E kind \in UpstreamKinds :
       IF timeout_occurred \/ clock > data.timeout
       THEN /\ events' = Append(events, TimeoutEvent)
            /\ pc' = "done"
       ELSE IF kind = "content_block_delta"
       THEN /\ events' = Append(events, ChunkEvent)
            /\ pc' = "streaming"
       ELSE IF kind = "message_stop"
       THEN /\ events' = Append(events, DoneEvent)
            /\ pc' = "done"
       ELSE /\ pc' = "streaming"
            /\ UNCHANGED events
  /\ UNCHANGED <<ep, log, svc_vars, http_vars, clock, timeout_occurred>>

\* the upstream stream ends: the loop is left and generate() yields the completion
upstream_end ==
  /\ pc = "streaming"
  /\ UNCHANGED <<lib_vars, store_vars>>
  /\ events' = Append(events, DoneEvent)
  /\ pc' = "done"
  /\ UNCHANGED <<ep, log, svc_vars, http_vars, clock, timeout_occurred, upstream>>

\* the upstream stream raises: generate() yields the error of lines 693-706
upstream_raise ==
  /\ pc = "streaming"
  /\ UNCHANGED <<lib_vars, store_vars>>
  /\ events' = Append(events, ErrorEvent)
  /\ pc' = "done"
  /\ UNCHANGED <<ep, log, svc_vars, http_vars, clock, timeout_occurred, upstream>>

Next ==
  \/ DirectCall
  \/ enhance_prompt_construct
  \/ _invoke_llm_with_retry_enter
  \/ _invoke_llm_with_retry_attempt
  \/ enhance_prompt_return
  \/ Receive
  \/ Validate
  \/ test_connection
  \/ CallService
  \/ ReceiveStream
  \/ stream_response_validate
  \/ stream_response_construct
  \/ invoke_claude_streaming_open
  \/ Tick
  \/ timeout_handler
  \/ upstream_event
  \/ upstream_end
  \/ upstream_raise

Spec == Init /\ [][Next]_vars


(***************************************************************************)
(* PromptService.analyze_prompt_complexity.                                *)
(***************************************************************************)
\* the token of k words, each followed by a blank
Words(k) == Tok("w ", k)

RECURSIVE split_len(_, _)
\* len(prompt.split()): the number of runs of characters that are no
\* whitespace; in_word says that the text before s ends inside such a run
split_len(s, in_word) ==
  IF s = <<>> THEN 0
  ELSE IF Head(s).n = 0 THEN split_len(Tail(s), in_word)
  ELSE IF IsSpace(Head(s)) THEN split_len(Tail(s), FALSE)
  ELSE IF Head(s).c = "w "
  THEN (IF in_word THEN Head(s).n - 1 ELSE Head(s).n) + split_len(Tail(s), FALSE)
  ELSE (IF in_word THEN 0 ELSE 1) + split_len(Tail(s), TRUE)

\* the dict analyze_prompt_complexity returns; error is str(e), "" when the
\* dict has no 'error'
Analysis(complexity, word_count, has_architecture, architecture_complexity, error) ==
  [kind |-> "ok", complexity |-> complexity, word_count |-> word_count,
   has_architecture |-> has_architecture,
   architecture_complexity |-> architecture_complexity, error |-> error]

\* lines 261-271
UnknownAnalysis(error) == Analysis("unknown", 0, FALSE, "unknown", error)

\* a plausible slip: `<=` for `<` in the comparisons with the thresholds
ComplexityInclusive(word_count, low_threshold, medium_threshold) ==
  IF word_count <= low_threshold THEN "low"
  ELSE IF word_count <= medium_threshold THEN "medium"
  ELSE "high"

\* lines 223-228
Complexity(word_count, low_threshold, medium_threshold) ==
  IF word_count < low_threshold THEN "low"
  ELSE IF word_count < medium_threshold THEN "medium"
  ELSE "high"

\* lines 234-241
ArchitectureComplexity(total) ==
  IF total < 10 THEN "simple" ELSE IF total < 50 THEN "moderate" ELSE "complex"

\* PromptService.analyze_prompt_complexity
analyze_prompt_complexity(prompt, architecture_layers) ==
  LET rule == get_validation_rule("complexity_thresholds")
      complexity_thresholds == Or(rule, EmptyDict)
      low_threshold == get(complexity_thresholds, "low", PyInt(DefaultLow))
      medium_threshold == get(complexity_thresholds, "medium", PyInt(DefaultMedium))
      word_count == split_len(prompt.text, FALSE)
      has_architecture == bool(architecture_layers)
      layers == architecture_layers.items
  IN IF ~bool(prompt) THEN Analysis("low", 0, FALSE, "none", "")
     ELSE IF prompt.kind # "str" THEN UnknownAnalysis("object has no attribute 'split'")
     ELSE IF Raised(rule) \/ complexity_thresholds.kind # "dict"
     THEN UnknownAnalysis("object has no attribute 'get'")
     ELSE IF \/ low_threshold.kind # "int"
             \/ (word_count >= low_threshold.n /\ medium_threshold.kind # "int")
     THEN UnknownAnalysis("'<' not supported")
     ELSE IF has_architecture /\ architecture_layers.kind # "list"
     THEN UnknownAnalysis("object is not iterable")
     ELSE IF has_architecture /\ \E i \in 1..Len(layers) : layers[i].kind # "dict"
     THEN UnknownAnalysis("object has no attribute 'get'")
     ELSE IF has_architecture
             /\ \E i \in 1..Len(layers) : get(layers[i], "nodeCount", PyInt(0)).kind # "int"
     THEN UnknownAnalysis("unsupported operand type(s) for +")
     ELSE Analysis(Complexity(word_count, low_threshold.n, medium_threshold.n), word_count,
            has_architecture,
            IF has_architecture THEN ArchitectureComplexity(total_components(layers))
            ELSE "none",
            "")

(***************************************************************************)
(* The library on its own: a PromptConfigLoader constructed over a backing *)
(* file, with the PromptConstructor and the PromptService that read it.    *)
(* A behaviour is the construction, reloads, and one call with its return. *)
(***************************************************************************)
\* the rules of a catalog with max_file_display and max_components_per_layer
\* given (None: the key is not there) and the thresholds given
Rules(max_files, max_components, thresholds) ==
  ValidationRules(
    (IF max_files.kind = "none" THEN {} ELSE {"max_file_display"})
      \cup (IF max_components.kind = "none" THEN {} ELSE {"max_components_per_layer"})
      \cup (IF thresholds.kind = "none" THEN {} ELSE {"complexity_thresholds"}),
    max_files, max_components, thresholds)

\* the limits tried: not configured, zero, and two small ones
LimitPairs ==
  {<<NoneV, NoneV>>, <<PyInt(0), PyInt(0)>>, <<PyInt(1), PyInt(2)>>, <<PyInt(2), PyInt(1)>>}

\* the thresholds tried: not configured, no keys, small ones, low above medium,
\* one that is no number
ThresholdValues ==
  {NoneV, EmptyDict, Thresholds({"low", "medium"}, PyInt(0), PyInt(2)),
   Thresholds({"low", "medium"}, PyInt(1), PyInt(2)),
   Thresholds({"low", "medium"}, PyInt(2), PyInt(2)),
   Thresholds({"low", "medium"}, PyInt(2), PyInt(1)),
   Thresholds({"low"}, PyInt(2), NoneV),
   Thresholds({"low", "medium"}, PyInt(1), StrV(<<Ch>>))}

BuiltInInstructions == _get_fallback_config.enhancement_instructions

\* the instruction catalogs tried: the built-in one; without 'rephrase', with
\* and without a 'default' entry; an entry without title
InstructionValues ==
  {BuiltInInstructions,
   [BuiltInInstructions EXCEPT !.keys = {"full_specification", "enhanced_prompt", "default"},
                               !.default = Entry(EntryKeys, "DEFAULT INSTRUCTIONS", 1)],
   [BuiltInInstructions EXCEPT !.keys = {"full_specification", "enhanced_prompt"}],
   [BuiltInInstructions EXCEPT
      !.enhanced_prompt = Entry({"description"}, "", 0),
      !.default = Entry(EntryKeys, "DEFAULT INSTRUCTIONS", 1)]}

ConfigKeys == {"system_prompts", "enhancement_instructions", "validation_rules"}

\* the JSON values the backing file may hold: a list, an empty object, catalogs
JsonValues ==
  {PyList(<<>>), EmptyDict,
   Config({"enhancement_instructions", "validation_rules"}, EmptyDict,
          BuiltInInstructions, Rules(NoneV, NoneV, NoneV)),
   Config(ConfigKeys, SystemPrompts({"enhanced_prompt"}),
          BuiltInInstructions, Rules(NoneV, NoneV, NoneV))}
  \cup {Config(ConfigKeys, SystemPrompts(SystemPromptKeys), BuiltInInstructions,
               Rules(p[1], p[2], th)) : p \in LimitPairs, th \in ThresholdValues}
  \cup {Config(ConfigKeys, SystemPrompts(SystemPromptKeys), ei, Rules(NoneV, NoneV, NoneV))
          : ei \in InstructionValues}

Files ==
  {File("missing", NoneV), File("unreadable", NoneV), File("invalid_json", NoneV)}
  \cup {File("json", v) : v \in JsonValues}

\* k copies of x
Copies(x, k) == [i \in 1..k |-> x]

\* a layer of k nodes, its nodeCount equal to k
LayerOf(k) == Layer(LayerKeys, "API", PyInt(k), PyList(Copies(Node("routes"), k)))

\* the lists of layers tried
LayerLists ==
  {PyList(<<>>)}
  \cup {PyList(<<LayerOf(k)>>) : k \in 0..MaxNodes}
  \cup {PyList(<<LayerOf(2), LayerOf(1)>>),
        PyList(<<StrV(<<Ch>>), LayerOf(1)>>),
        PyList(<<Layer({"name"}, "API", PyInt(0), PyList(<<>>))>>),
        PyList(<<Layer(LayerKeys, "API", PyInt(5), PyList(<<StrV(<<Ch>>), Node("routes")>>))>>),
        PyList(<<Layer(LayerKeys, "API", StrV(<<Ch>>), PyList(<<>>))>>),
        PyList(<<Layer(LayerKeys, "API", PyInt(1), NoneV)>>)}

\* the architectures tried: none, each list of layers bare and wrapped, a dict
\* without keys, a wrapper of None, a string
Architectures ==
  {NoneV, EmptyDict, ArchDict({"layers"}, NoneV), StrV(<<Ch>>)}
  \cup LayerLists
  \cup {ArchDict({"layers"}, L) : L \in LayerLists}

\* the file lists tried: none, k files, a descriptor with a path only, one
\* without keys, one that is a string, a number in place of the list
FileLists ==
  {NoneV, PyInt(5)}
  \cup {PyList(Copies(File1, k)) : k \in 0..MaxFiles}
  \cup {PyList(<<FileInfo({"path"}, "", "src/app.py", "")>>),
        PyList(<<FileInfo({}, "", "", "")>>),
        PyList(<<StrV(<<Ch>>)>>),
        PyList(<<File1, File1, StrV(<<Ch>>)>>)}

Requirements == {NoneV, PyList(<<>>), PyList(<<"r1">>), PyList(<<"r1", "r2">>), PyInt(5)}

Login == StrV(<<Word("login")>>)

\* the user inputs tried: None, a number, the empty string, and texts that
\* match none, one or all three of the keyword lists
UserInputs ==
  {NoneV, PyInt(5), StrV(<<>>), Login, StrV(<<Word("Add")>>), StrV(<<Word("refactoring")>>),
   StrV(<<Word("fix bug")>>), StrV(<<Word("testing"), Sp, Word("Add")>>),
   StrV(<<Word("Add"), Sp, Word("refactoring"), Sp, Word("fix bug")>>)}

\* the calls of construct_enhanced_prompt tried: every user input with every
\* type, without and with an architecture; every file list; every
\* architecture; and the combinations of a few values of each context
ConstructorInputs ==
  {<<u, NoneV, NoneV, a, t>> :
     u \in UserInputs, a \in {NoneV, PyList(<<Layer1>>)},
     t \in LegacyAliases \cup ValidTypes \cup {"bogus", "custom"}}
  \cup {<<Login, NoneV, f, NoneV, "enhanced_prompt">> : f \in FileLists}
  \cup {<<Login, NoneV, NoneV, a, "enhanced_prompt">> : a \in Architectures}
  \cup {<<Login, r, f, a, "rephrase">> :
          r \in Requirements,
          f \in {NoneV, PyList(<<File1>>), PyList(<<File1, File1, File1>>)},
          a \in {NoneV, PyList(<<>>), ArchDict({"layers"}, PyList(<<>>)),
                 PyList(<<Layer1>>), ArchDict({"layers"}, PyList(<<Layer1>>))}}

\* the prompts analysed: None, a number, the empty string, blanks, words
\* around the small thresholds and around the built-in ones
Prompts ==
  {NoneV, PyInt(5), StrV(<<>>), StrV(<<Sp>>), StrV(<<Ch, Sp, Ch>>)}
  \cup {StrV(<<Words(k)>>) : k \in 1..MaxWords}
  \cup {StrV(<<Words(k)>>) :
          k \in {DefaultLow - 1, DefaultLow, DefaultMedium - 1, DefaultMedium}}

\* the state after PromptConfigLoader.__init__ over some backing file
LibInit ==
  /\ IdleRequest
  /\ \E f \in Files : backing_file = f /\ config = _load_config(f)
  /\ call = NoCall
  /\ ret = NoneV
  /\ EmptyStore

\* PromptConfigLoader.reload_config, over the backing file as it is then
reload_config ==
  /\ pc = "idle"
  /\ \E f \in Files : backing_file' = f /\ config' = _load_config(f)
  /\ UNCHANGED <<pc, call, ret, request_vars, store_vars>>

get_system_prompt_call ==
  /\ pc = "idle"
  /\ \E t \in SystemPromptKeys \cup {"bogus"} :
       /\ call' = Call("get_system_prompt", t, NoneV)
       /\ ret' = Ok(get_system_prompt(t))
  /\ pc' = "done"
  /\ UNCHANGED <<backing_file, config, request_vars, store_vars>>

get_validation_rule_call ==
  /\ pc = "idle"
  /\ \E r \in {"max_file_display", "max_components_per_layer", "complexity_thresholds",
                "no_such_rule"} :
       /\ call' = Call("get_validation_rule", r, NoneV)
       /\ ret' = LET v == get_validation_rule(r) IN IF Raised(v) THEN v ELSE Ok(v)
  /\ pc' = "done"
  /\ UNCHANGED <<backing_file, config, request_vars, store_vars>>

format_enhancement_instructions_call ==
  /\ pc = "idle"
  /\ \E t \in LegacyAliases \cup ValidTypes \cup {"bogus"} :
       /\ call' = Call("format_enhancement_instructions", t, NoneV)
       /\ ret' = Ok(format_enhancement_instructions(t))
  /\ pc' = "done"
  /\ UNCHANGED <<backing_file, config, request_vars, store_vars>>

construct_enhanced_prompt_call ==
  /\ pc = "idle"
  /\ \E in \in ConstructorInputs :
       /\ args' = [user_prompt |-> in[1], nfr_requirements |-> in[2], file_context |-> in[3],
                   application_architecture |-> in[4], enhancement_type |-> in[5],
                   return_string_only |-> FALSE, bedrock_service |-> TRUE]
       /\ constructed' = construct_enhanced_prompt(in[1], in[2], in[3], in[4], in[5])
  /\ call' = Call("construct_enhanced_prompt", NoneV, NoneV)
  /\ pc' = "done"
  /\ UNCHANGED <<backing_file, config, ret, ep, log, calls, sleeps, last_error, result,
                 http_vars, stream_vars, store_vars>>

\* the architecture lists analysed
AnalysedLayers ==
  {NoneV, PyList(<<>>), PyList(<<Layer1>>), PyList(<<LayerOf(MaxNodes)>>),
   PyList(<<StrV(<<Ch>>)>>)}

analyze_prompt_complexity_call ==
  /\ pc = "idle"
  /\ \E p \in Prompts, L \in AnalysedLayers :
       /\ call' = Call("analyze_prompt_complexity", p, L)
       /\ ret' = analyze_prompt_complexity(p, L)
  /\ pc' = "done"
  /\ UNCHANGED <<backing_file, config, request_vars, store_vars>>

\* the keys of the dict construct_enhanced_prompt returns (lines 74-92)
PromptKeys ==
  {"system_prompt", "enhanced_prompt", "original_input", "enhancement_type", "nfr_count",
   "file_count", "architecture_enabled", "architecture_layers", "timestamp", "metadata"}

\* PromptConstructor.enhance_with_llm: constructed_prompt['user_prompt'] and
\* constructed_prompt['system_prompt'] are read for the call of invoke_claude,
\* and a key the dict lacks raises KeyError; the except clause raises it again
enhance_with_llm(constructed_prompt, bedrock_service, response) ==
  IF ~bedrock_service THEN Raise("BedrockService not available for LLM enhancement")
  ELSE IF "user_prompt" \notin PromptKeys THEN Raise("KeyError: 'user_prompt'")
  ELSE IF "system_prompt" \notin PromptKeys THEN Raise("KeyError: 'system_prompt'")
  ELSE IF response.kind = "raise" THEN Raise("Error invoking Claude model")
  ELSE Ok([enhanced_prompt |-> response,
           prompt |-> constructed_prompt.user_prompt,
           system_prompt |-> constructed_prompt.system_prompt,
           original_metadata |-> constructed_prompt])

\* enhance_with_llm on the dict a call of construct_enhanced_prompt returned,
\* with or without a gateway, the gateway answering a text or raising
enhance_with_llm_call ==
  /\ pc = "done"
  /\ call.fn = "construct_enhanced_prompt"
  /\ constructed.built
  /\ \E bedrock_service \in BOOLEAN,
        response \in {Outcome("raise", <<>>), Outcome("text", <<Ch>>)} :
       /\ call' = Call("enhance_with_llm", response, bedrock_service)
       /\ ret' = enhance_with_llm(constructed, bedrock_service, response)
  /\ pc' = "llm_done"
  /\ UNCHANGED <<backing_file, config, request_vars, store_vars>>

LibNext ==
  \/ reload_config
  \/ get_system_prompt_call
  \/ get_validation_rule_call
  \/ format_enhancement_instructions_call
  \/ construct_enhanced_prompt_call
  \/ analyze_prompt_complexity_call
  \/ enhance_with_llm_call

LibSpec == LibInit /\ [][LibNext]_vars

(***************************************************************************)
(* The graph routes of app.py.  graph_call records the last request: the   *)
(* route, its arguments and the status of the answer.                      *)
(***************************************************************************)

\* POST /api/graph/nodes
handle_graph_nodes ==
  \E node_data \in NodeValues :
    /\ db' = create_node(db, node_data)
    /\ graph_call' = GraphCall("create_node", "", FALSE, 200)
    /\ UNCHANGED <<pc, request_vars, lib_vars, github_vars>>

\* POST /api/graph/edges
create_graph_edge ==
  \E e \in EdgeValues :
    /\ db' = create_edge(db, e)
    /\ graph_call' = GraphCall("create_edge", "", FALSE, 200)
    /\ UNCHANGED <<pc, request_vars, lib_vars, github_vars>>

\* POST /api/graph/layers: a layer that exists already is refused, another one
\* is created (neo4j_service.py lines 753-796)
handle_custom_layers ==
  \E layer_name \in LayerNames :
    /\ IF layer_name \in db.custom_layers
         THEN /\ db' = db
              /\ graph_call' = GraphCall("create_custom_layer", "", FALSE, 400)
         ELSE /\ db' = [db EXCEPT !.custom_layers = @ \cup {layer_name}]
              /\ graph_call' = GraphCall("create_custom_layer", "", FALSE, 200)
    /\ UNCHANGED <<pc, request_vars, lib_vars, github_vars>>

\* POST /api/graph/clear
clear_graph ==
  /\ db' = clear_all_data(db)
  /\ graph_call' = GraphCall("clear_all_data", "", FALSE, 200)
  /\ UNCHANGED <<pc, request_vars, lib_vars, github_vars>>

\* POST /api/graph/sample
populate_sample_graph ==
  /\ db' = populate_sample_data(db)
  /\ graph_call' = GraphCall("populate_sample_data", "", FALSE, 200)
  /\ UNCHANGED <<pc, request_vars, lib_vars, github_vars>>

\* POST /api/graph/save: the current graph under a name, refused when there
\* is no node
save_graph_handler ==
  \E graph_name \in GraphNames :
    LET graph_data == get_all_nodes_and_edges(db) IN
    /\ IF graph_data.nodes = {}
         THEN /\ db' = db
              /\ graph_call' = GraphCall("save_graph", graph_name, FALSE, 400)
         ELSE /\ db' = save_graph(db, graph_name, graph_data, "nfr")
              /\ graph_call' = GraphCall("save_graph", graph_name, FALSE, 200)
    /\ UNCHANGED <<pc, request_vars, lib_vars, github_vars>>

\* POST /api/graph/load/<name>: clear_all_data, then load_graph
load_graph_handler ==
  \E graph_name \in GraphNames :
    LET loaded == load_graph(clear_all_data(db), graph_name) IN
    /\ db' = loaded.db
    /\ graph_call' = GraphCall("load_graph", graph_name, FALSE,
                               IF loaded.ok THEN 200 ELSE 404)
    /\ UNCHANGED <<pc, request_vars, lib_vars, github_vars>>

\* DELETE /api/graph/saved/<name>
delete_saved_graph_handler ==
  \E graph_name \in GraphNames :
    LET deleted == delete_saved_graph(db, graph_name) IN
    /\ db' = deleted.db
    /\ graph_call' = GraphCall("delete_saved_graph", graph_name, FALSE,
                               IF deleted.ok THEN 200 ELSE 404)
    /\ UNCHANGED <<pc, request_vars, lib_vars, github_vars>>

\* POST /api/graph/import/validate with one payload
validate_import_request(import_data) ==
  LET imported == import_graph_data(db, import_data, "", FALSE, TRUE) IN
  /\ db' = imported.db
  /\ graph_call' = GraphCall("validate_import", "", FALSE, 200)
  /\ UNCHANGED <<pc, request_vars, lib_vars, github_vars>>

\* POST /api/graph/import/validate
validate_import ==
  \E import_data \in Payloads : validate_import_request(import_data)

\* POST /api/graph/import with one payload and one set of options
import_graph_request(import_data, graph_name, clear_existing) ==
  LET imported == import_graph_data(db, import_data, graph_name, clear_existing, FALSE) IN
  /\ db' = imported.db
  /\ graph_call' = GraphCall("import_graph", graph_name, clear_existing,
                             IF imported.result.success THEN 200 ELSE 400)
  /\ UNCHANGED <<pc, request_vars, lib_vars, github_vars>>

\* POST /api/graph/import
import_graph ==
  \E import_data \in Payloads, graph_name \in GraphNames \cup {""},
     clear_existing \in BOOLEAN :
    import_graph_request(import_data, graph_name, clear_existing)

GraphNext ==
  \/ handle_graph_nodes
  \/ create_graph_edge
  \/ handle_custom_layers
  \/ clear_graph
  \/ populate_sample_graph
  \/ save_graph_handler
  \/ load_graph_handler
  \/ delete_saved_graph_handler
  \/ validate_import
  \/ import_graph

GraphSpec == Init /\ [][GraphNext]_vars

(***************************************************************************)
(* The shared GitHubService (services/github_service.py) and the repository*)
(* route of app.py.  github_service.github is None, "public" for Github(), *)
(* or the token the client was built with.                                 *)
(***************************************************************************)


\* lines 16-23
set_token(service, token) ==
  IF token # NoToken /\ token # service.token
    THEN [github |-> token, token |-> token]
  ELSE IF token = NoToken /\ service.token = NoToken
    THEN [service EXCEPT !.github = "public"]
  ELSE service


\* app.py lines 223-230: a request arrives and the handler calls set_token
\* with the request's token, or the environment's when it has none
get_repository_files_set_token(r) ==
  /\ github_requests[r].phase \in {"idle", "served"}
  /\ \E request_token \in Tokens \cup {NoToken} :
       LET github_token == IF request_token # NoToken THEN request_token ELSE environ IN
       /\ github_service' = set_token(github_service, github_token)
       /\ github_requests' = [github_requests EXCEPT ![r] =
            [phase |-> "set", github_token |-> github_token, served |-> NoToken]]
  /\ UNCHANGED <<pc, request_vars, lib_vars, graph_vars, environ>>

\* app.py line 231, github_service.py lines 47-51: the repository is read with
\* the client the shared service holds then
get_repository_files(r) ==
  /\ github_requests[r].phase = "set"
  /\ github_requests' = [github_requests EXCEPT ![r].phase = "served",
                                                ![r].served = github_service.github]
  /\ UNCHANGED <<pc, request_vars, lib_vars, graph_vars, environ, github_service>>

EnvTokens == {NoToken, "tE"}
\* the application started with or without GITHUB_TOKEN in its environment
GitHubInit ==
  /\ IdleRequest
  /\ backing_file = File("missing", NoneV)
  /\ config = _load_config(File("missing", NoneV))
  /\ call = NoCall
  /\ ret = NoneV
  /\ db = EmptyDb
  /\ graph_call = NoGraphCall
  /\ environ \in EnvTokens
  /\ github_service = NewGitHubService
  /\ github_requests = [r \in Requests |-> IdleGitHubRequest]
GitHubNext ==
  \/ \E r \in Requests : get_repository_files_set_token(r)
  \/ \E r \in Requests : get_repository_files(r)

GitHubSpec == GitHubInit /\ [][GitHubNext]_vars

(***************************************************************************)
(* The properties.  What they say of a response, a request or a result is  *)
(* stated here on its own, apart from the operators of the model above.    *)
(***************************************************************************)
Last(q) == q[Len(q)]
InLog(x) == \E i \in 1..Len(log) : log[i] = x

\* PromptService.enhance_prompt has returned
Returned == result.kind # "none"

\* the response is text with a character that is no whitespace
HasNonSpace(r) == r.kind = "text" /\ \E i \in 1..Len(r.text) : r.text[i].c # " "

EmptyString == Outcome("text", <<>>)

\* the three attempts of the budget were made and every one failed
AllFailed == Len(calls) = 3 /\ \A i \in 1..3 : ~HasNonSpace(calls[i])

\* C1, as stated: at most 3 invocations; a None, blank or raising attempt is
\* followed by another while fewer than 3 were made; the first attempt with
\* non-blank text ends the loop and that very text is the result.
C1_FirstGoodResponseIsResult ==
  /\ Len(calls) <= 3
  /\ \A i \in 1..(Len(calls) - 1) : ~HasNonSpace(calls[i])
  /\ (calls # <<>> /\ ~HasNonSpace(Last(calls)) /\ Len(calls) < 3)
       => (pc = "svc_attempt" /\ ~Returned)
  /\ (calls # <<>> /\ HasNonSpace(Last(calls)))
       => (Returned /\ result.str = PyStr("", Last(calls).text, NoMsg))

\* C1, amended: as C1, but the result is the text of the first non-blank
\* response with its leading and trailing whitespace removed.
C1_RetryLoop ==
  /\ Len(calls) <= 3
  /\ \A i \in 1..(Len(calls) - 1) : ~HasNonSpace(calls[i])
  /\ (calls # <<>> /\ ~HasNonSpace(Last(calls)) /\ Len(calls) < 3)
       => (pc = "svc_attempt" /\ ~Returned)
  /\ (calls # <<>> /\ HasNonSpace(Last(calls)))
       => (Returned /\ result.str = PyStr("", strip(Last(calls).text), NoMsg))

\* a blank answer, then an answer with whitespace around its text: two calls, no third
C1_Witness ==
  /\ pc = "done"
  /\ calls = <<Outcome("text", <<Sp>>), Outcome("text", <<Sp, Ch>>)>>
  /\ result.str.text = <<Ch>>

\* the gateway has answered the empty string on the first two calls and a
\* non-blank string on the third, as far as it was called
C2_Stub ==
  /\ calls # <<>>
  /\ \A i \in 1..Len(calls) :
       IF i <= 2 THEN calls[i] = EmptyString ELSE HasNonSpace(calls[i])

\* the sleeps are 1 second, then 2 seconds, one before each further attempt
C2_Backoff ==
  /\ Len(sleeps) <= 2
  /\ \A i \in 1..Len(sleeps) : sleeps[i] = (IF i = 1 THEN 1 ELSE 2)
  /\ pc = "svc_attempt" => Len(sleeps) = Len(calls)

\* C2, as stated: backoff of 1 then 2 seconds; with the gateway answering "",
\* "", then a valid string, the valid string itself is returned after exactly
\* 3 invocations and at least 1+2 seconds of sleep.
C2_StubbedValidStringReturned ==
  /\ C2_Backoff
  /\ (C2_Stub /\ Returned) => Len(calls) = 3
  /\ (C2_Stub /\ Len(calls) = 3)
       => /\ Returned
          /\ result.str = PyStr("", calls[3].text, NoMsg)
          /\ sleeps = <<1, 2>>
          /\ sleeps[1] + sleeps[2] >= 1 + 2

\* C2, amended: as C2, but what is returned is the valid string with its
\* leading and trailing whitespace removed.
C2_BackoffThenSuccess ==
  /\ C2_Backoff
  /\ (C2_Stub /\ Returned) => Len(calls) = 3
  /\ (C2_Stub /\ Len(calls) = 3)
       => /\ Returned
          /\ result.str = PyStr("", strip(calls[3].text), NoMsg)
          /\ sleeps = <<1, 2>>
          /\ sleeps[1] + sleeps[2] >= 1 + 2

C2_Witness ==
  /\ pc = "done"
  /\ calls = <<EmptyString, EmptyString, Outcome("text", <<Ch, Sp>>)>>
  /\ sleeps = <<1, 2>>
  /\ result.str.text = <<Ch>>

\* str() of the error the third attempt left
C3_LastCause ==
  IF calls[3].kind = "raise" THEN "Error invoking Claude model" ELSE "Empty response from LLM"

\* the message names 3 attempts and the last underlying error
C3_Names(m) == m.attempts = 3 /\ m.last = C3_LastCause

\* C3, as stated: when all attempts fail, one aggregated error is raised, only
\* after the last attempt, and enhance_prompt turns it into a result with
\* success = false whose error names 3 attempts and the last error.
C3_ExhaustionGivesFailureEnvelope ==
  /\ AllFailed
       => /\ Returned
          /\ "success" \in result.keys /\ ~result.success
          /\ "error" \in result.keys /\ C3_Names(result.error)
  /\ result.str.msg.attempts # 0 => AllFailed

\* C3, amended: when all attempts fail, one aggregated error is raised, only
\* after the last attempt, and enhance_prompt turns it into a failure result
\* whose message names 3 attempts and the last error: the envelope with
\* success = false when return_string_only is false, the bare string
\* 'Enhancement failed: <message>' when it is true.
C3_ExhaustionGivesFailure ==
  /\ AllFailed
       => /\ Returned
          /\ result.str.prefix = "Enhancement failed: "
          /\ C3_Names(result.str.msg)
          /\ IF args.return_string_only
             THEN result.kind = "str" /\ result.keys = {}
             ELSE /\ result.kind = "dict"
                  /\ "success" \in result.keys /\ ~result.success
                  /\ "error" \in result.keys /\ result.error = result.str.msg
  /\ result.str.msg.attempts # 0 => AllFailed

C3_Witness ==
  /\ pc = "done"
  /\ AllFailed
  /\ calls[1] = EmptyString /\ calls[3].kind = "raise"
  /\ ~args.return_string_only
  /\ ~result.success /\ result.error.attempts = 3

\* the call of enhance_prompt is over
C4_Over == ep = "direct" /\ pc \in {"svc_ret", "done"}

\* construction or invocation failed
C4_Failed == args.user_prompt.kind = "none" \/ ~args.bedrock_service \/ AllFailed

\* the string of the result: 'Enhancement failed: <message>' after a failure,
\* the enhanced text after a successful LLM call
C4_Text ==
  IF C4_Failed
  THEN result.str.prefix = "Enhancement failed: " /\ result.str.msg # NoMsg
       /\ result.str.text = <<>>
  ELSE result.str.prefix = "" /\ result.str.msg = NoMsg
       /\ HasNonSpace(Last(calls)) /\ result.str.text = strip(Last(calls).text)

\* the envelope: success = false with the error, or success = true with the metadata
C4_Envelope ==
  /\ result.kind = "dict"
  /\ {"success", "enhanced_prompt"} \subseteq result.keys
  /\ IF C4_Failed
     THEN ~result.success /\ "error" \in result.keys /\ result.error = result.str.msg
     ELSE result.success /\ "metadata" \in result.keys
          /\ result.metadata = constructed.metadata

\* C4, as stated: for every input and gateway behaviour enhance_prompt returns
\* an envelope with an explicit success indicator: success = false, the error
\* and 'Enhancement failed: <message>' after a failure, success = true, the
\* enhanced text and the metadata after a successful LLM call.
C4_AlwaysAnEnvelope == C4_Over => (Returned /\ C4_Text /\ C4_Envelope)

\* C4, amended: enhance_prompt never propagates an exception; with
\* return_string_only false it returns the envelope of C4; with
\* return_string_only true it returns a bare string, the enhanced text or
\* 'Enhancement failed: <message>', which carries no success indicator.
C4_NeverRaises ==
  C4_Over
    => /\ Returned
       /\ C4_Text
       /\ IF args.return_string_only
          THEN result.kind = "str" /\ result.keys = {}
          ELSE C4_Envelope

C4_Witness ==
  /\ C4_Over
  /\ args.user_prompt = NoneV
  /\ ~args.return_string_only
  /\ result.kind = "dict" /\ ~result.success
  /\ result.error.text = "Invalid input: user_input is required and must be non-empty"

\* no call of the gateway has come back without non-blank text
C5_GatewayGood == \A i \in 1..Len(calls) : HasNonSpace(calls[i])

\* C5: a request to one of the two enhancement endpoints that carries a prompt
\* (with no or with valid custom instructions), with the probe succeeding and
\* the gateway returning non-blank text, is answered 2xx with the enhanced
\* text, the echoed input and the metadata.
C5_EnhancementAnswered ==
  (/\ ep \in Handlers
   /\ pc = "done"
   /\ data.has_prompt
   /\ status # 400
   /\ InLog("probe:true")
   /\ C5_GatewayGood)
    => /\ status = 200
       /\ {"original_input", "metadata"} \subseteq body.keys
       /\ body.original_input = data.prompt
       /\ body.enhanced.str.text # <<>>

\* the titles of the templated instruction blocks
C6_TemplateTitles ==
  {"FULL SPECIFICATION REQUEST", "ENHANCED IMPLEMENTATION PLAN", "PROMPT OPTIMIZATION",
   "ENHANCEMENT INSTRUCTIONS"}

\* C6: a request whose custom_instructions are non-empty after sanitization is
\* processed with enhancement_type = custom, and the instruction section of the
\* final prompt is the directive to follow the custom text, no templated block.
C6_CustomInstructionsReplaceTemplate ==
  (/\ ep \in Handlers
   /\ pc = "done"
   /\ Truthy(custom_instructions)
   /\ InLog("probe:true"))
    => /\ enhancement_type = "custom"
       /\ constructed.built
       /\ \A i \in 1..Len(constructed.enhanced_prompt) :
            constructed.enhanced_prompt[i].kind = "h2"
              => constructed.enhanced_prompt[i].text \notin C6_TemplateTitles

\* C7: in each of the three handlers a probe that answers false gives 503,
\* and then nothing is constructed and the LLM is invoked neither by the retry
\* loop nor by streaming; construction and invocation come after a probe that
\* answered true.
C7_ProbeBeforeWork ==
  ep \in {"plain", "arch", "stream"}
    => /\ InLog("probe:false")
            => /\ status = 503 /\ pc = "done"
               /\ ~InLog("construct") /\ ~InLog("invoke") /\ ~InLog("stream")
               /\ ~constructed.built /\ calls = <<>> /\ events = <<>>
       /\ status = 503 => InLog("probe:false")
       /\ \A i \in 1..Len(log) :
            log[i] \in {"construct", "invoke", "stream"}
              => \E j \in 1..(i - 1) : log[j] = "probe:true"

C7_Witness ==
  /\ ep = "stream"
  /\ pc = "done"
  /\ log = <<"probe:false">>
  /\ status = 503

\* the handler has looked at the request
C8_Validated == ep \in Handlers /\ pc \notin {"idle", "validate"}

\* answered 400 with a message, with no probe, no construction, no LLM call
C8_Rejected ==
  /\ status = 400 /\ body.error.text # "" /\ pc = "done"
  /\ log = <<>> /\ ~constructed.built /\ calls = <<>>

\* the custom instructions are a string too long, or empty once sanitized
C8_BadText(ci) ==
  ci.kind = "str" /\ (len(ci.text) > 2000 \/ sanitize(ci.text) = <<>>)

\* C8, as stated: a request without prompt, or whose custom_instructions is
\* not a string, longer than 2000 characters or empty after sanitization, is
\* answered 400, and no probe, construction or LLM invocation is made for it.
C8_InvalidRequestsRejected ==
  (/\ C8_Validated
   /\ \/ ~data.has_prompt
      \/ data.custom_instructions.kind = "num"
      \/ C8_BadText(data.custom_instructions))
    => C8_Rejected

\* C8, amended: a request to /api/enhance-prompt or
\* /api/enhance-prompt-with-architecture without prompt, or whose
\* custom_instructions is a truthy value (not null, zero or empty) that is not
\* a string, is longer than 2000 characters or is empty after sanitization, is
\* answered 400, and no probe, construction or LLM invocation is made for it;
\* a falsy custom_instructions is taken as absent.
C8_TruthyInvalidRejected ==
  (/\ C8_Validated
   /\ \/ ~data.has_prompt
      \/ /\ Truthy(data.custom_instructions)
         /\ \/ data.custom_instructions.kind = "num"
            \/ C8_BadText(data.custom_instructions))
    => C8_Rejected

C8_Witness ==
  /\ ep = "arch"
  /\ data.has_prompt
  /\ data.custom_instructions.text = <<ScriptOpen, Ch, ScriptClose, Sp>>
  /\ status = 400
  /\ body.error.text = "Custom instructions cannot be empty after sanitization"

\* C9: of two requests that break no other rule (the prompt is there, the text
\* is not empty after sanitization), the one with custom_instructions of 2001
\* characters is rejected with 400, the one of 2000 characters is not: the
\* handler goes on with it to the probe and to the enhancement call.
C9_LengthBoundary ==
  (/\ C8_Validated
   /\ data.has_prompt
   /\ data.custom_instructions.kind = "str"
   /\ sanitize(data.custom_instructions.text) # <<>>)
    => /\ len(data.custom_instructions.text) = 2001
            => /\ C8_Rejected
               /\ body.error.text = "Custom instructions must be 2000 characters or less"
       /\ len(data.custom_instructions.text) = 2000
            => /\ status # 400
               /\ enhancement_type = "custom"
               /\ pc = "done" => (InLog("probe:true") \/ InLog("probe:false"))
               /\ (pc = "done" /\ InLog("probe:true")) => status \in {200, 500}

C9_Witness ==
  /\ ep = "plain"
  /\ pc = "call"
  /\ data.custom_instructions.text = <<Tok("a", 2000)>>
  /\ custom_instructions.text = <<Tok("a", 2000)>>

\* the enhancement type the constructor was given
C10_Given == IF ep = "direct" THEN args.enhancement_type ELSE enhancement_type

\* the resolution the specification lays down
C10_Resolved(t) ==
  CASE t = "maximum_detail" -> "full_specification"
    [] t = "balanced" -> "enhanced_prompt"
    [] t = "key_requirements" -> "rephrase"
    [] t \in {"full_specification", "enhanced_prompt", "rephrase", "default"} -> t
    [] OTHER -> "enhanced_prompt"

\* C10: the type the constructor resolves is one of full_specification,
\* enhanced_prompt, rephrase, default, as the alias table and the fallback to
\* enhanced_prompt lay down; no request fails because of its type; resolving a
\* resolved type changes nothing.
C10_TypeResolution ==
  /\ constructed.built
       => /\ constructed.enhancement_type = C10_Resolved(C10_Given)
          /\ constructed.metadata.enhancement_type = C10_Resolved(C10_Given)
          /\ constructed.enhancement_type
               \in {"full_specification", "enhanced_prompt", "rephrase", "default"}
          /\ _map_enhancement_type(constructed.enhancement_type)
               = constructed.enhancement_type
  /\ (ep = "direct" /\ pc \notin {"idle", "svc_construct"} /\ args.user_prompt.kind = "str")
       => constructed.built

C10_Witness ==
  /\ ep = "direct"
  /\ args.enhancement_type = "bogus"
  /\ constructed.built
  /\ constructed.enhancement_type = "enhanced_prompt"

\* C11: the enhancement type reported in an enhancement result, the envelope
\* of the orchestrator and the JSON of the endpoint, is the resolved type, and
\* so equals the enhancement_type of the result's metadata.
C11_ReportedTypeIsResolved ==
  /\ (result.kind = "dict" /\ result.success)
       => /\ result.enhancement_type = C10_Resolved(args.enhancement_type)
          /\ result.enhancement_type = result.metadata.enhancement_type
  /\ (result.kind = "dict" /\ ~result.success /\ args.user_prompt.kind = "str")
       => result.enhancement_type = C10_Resolved(args.enhancement_type)
  /\ status = 200 => body.enhancement_type = C10_Resolved(data.enhancement_type)

(***************************************************************************)
(* The properties of the library, under LibSpec.                           *)
(***************************************************************************)
\* construct_enhanced_prompt was called on its own and has returned a prompt
Constructed == pc = "done" /\ call.fn = "construct_enhanced_prompt" /\ constructed.built

\* the positions of the lines of a kind in the constructed prompt
LinesOf(kind) ==
  {i \in 1..Len(constructed.enhanced_prompt) : constructed.enhanced_prompt[i].kind = kind}

Smaller(x, y) == IF x < y THEN x ELSE y

\* a list that is not empty
NonEmptyList(v) == v.kind = "list" /\ v.items # <<>>

IsSectionStart(line) == line.kind \in {"title", "h2"}

\* the sections of the constructed prompt, in order: the titles, and
\* "instructions" for the block of the enhancement instructions
C12_Sections ==
  LET starts == SelectSeq(constructed.enhanced_prompt, IsSectionStart) IN
  [i \in 1..Len(starts) |->
     IF starts[i].kind = "h2" THEN "instructions" ELSE starts[i].text]

\* C12: the sections appear in the order header, original request,
\* non-functional requirements, architecture context, file context,
\* enhancement instructions; the first two and the last are there exactly
\* once, the requirements section exactly when the requirement list is not
\* empty, the architecture section exactly when an architecture was supplied,
\* the file section exactly when the file list is not empty.
C12_SectionsInOrder ==
  Constructed
    => C12_Sections =
         <<"# VIBE CODING ASSISTANT - ENHANCED SPECIFICATION REQUEST",
           "## ORIGINAL USER REQUEST">>
         \o (IF NonEmptyList(args.nfr_requirements)
             THEN <<"## NON-FUNCTIONAL REQUIREMENTS">> ELSE <<>>)
         \o (IF args.application_architecture.kind # "none"
             THEN <<"## APPLICATION ARCHITECTURE CONTEXT">> ELSE <<>>)
         \o (IF NonEmptyList(args.file_context) THEN <<"## CODEBASE CONTEXT">> ELSE <<>>)
         \o <<"instructions">>

\* the value configured for a validation rule, -1 when none is configured
Configured(rule) ==
  IF /\ config.kind = "dict"
     /\ "validation_rules" \in config.keys
     /\ rule \in config.validation_rules.keys
     /\ config.validation_rules[rule].kind = "int"
  THEN config.validation_rules[rule].n
  ELSE -1

\* the file list of length n is rendered under the display maximum m
C13_Rendered(n, m) ==
  /\ Cardinality(LinesOf("file")) = Smaller(n, m)
  /\ \A i \in LinesOf("file_count") : constructed.enhanced_prompt[i].n = n
  /\ Cardinality(LinesOf("file_count")) = 1
  /\ Cardinality(LinesOf("more_files")) = (IF n > m THEN 1 ELSE 0)
  /\ \A i \in LinesOf("more_files") :
       /\ constructed.enhanced_prompt[i].n = n - m
       /\ Cardinality(LinesOf("file")) + constructed.enhanced_prompt[i].n = n
  /\ constructed.file_count = n
  /\ constructed.metadata.file_count = n

\* the prompt was constructed over a list of at least one file
C13_Files == Constructed /\ NonEmptyList(args.file_context)

C14_Layers ==
  IF args.application_architecture.kind = "list"
  THEN args.application_architecture.items
  ELSE args.application_architecture.layers.items

\* a layer that is a dict has a number for nodeCount and a list for nodes
C14_WellFormed(layer) ==
  layer.kind = "dict"
    => /\ "nodeCount" \in layer.keys => layer.nodeCount.kind = "int"
       /\ "nodes" \in layer.keys => layer.nodes.kind = "list"

\* the prompt was constructed over a list of layers, bare or wrapped, that is
\* not empty and whose layers are well formed, the catalog being a dict
C14_Architecture ==
  /\ Constructed
  /\ config.kind = "dict"
  /\ \/ NonEmptyList(args.application_architecture)
     \/ /\ args.application_architecture.kind = "dict"
        /\ "layers" \in args.application_architecture.keys
        /\ NonEmptyList(args.application_architecture.layers)
  /\ \A i \in 1..Len(C14_Layers) : C14_WellFormed(C14_Layers[i])

C14_NodeCount(layer) == IF "nodeCount" \in layer.keys THEN layer.nodeCount.n ELSE 0
C14_Nodes(layer) == IF "nodes" \in layer.keys THEN Len(layer.nodes.items) ELSE 0

\* what a line says: its kind and the number it states
C14_Said(line) ==
  <<line.kind, IF line.kind \in {"layer", "more_components"} THEN line.n ELSE 0>>

RECURSIVE C14_Expected(_, _)
\* what the layers are to say under the maximum m: for each layer that is a
\* dict its count, min(k, m) components, k - m more when k > m, a blank
C14_Expected(layers, m) ==
  IF layers = <<>> THEN <<>>
  ELSE (IF Head(layers).kind # "dict" THEN <<>>
        ELSE <<<<"layer", C14_NodeCount(Head(layers))>>>>
             \o [i \in 1..Smaller(C14_Nodes(Head(layers)), m) |-> <<"component", 0>>]
             \o (IF C14_Nodes(Head(layers)) > m
                 THEN <<<<"more_components", C14_Nodes(Head(layers)) - m>>>> ELSE <<>>)
             \o <<<<"blank", 0>>>>)
       \o C14_Expected(Tail(layers), m)

RECURSIVE C14_Sum(_)
C14_Sum(layers) ==
  IF layers = <<>> THEN 0
  ELSE (IF Head(layers).kind = "dict" THEN C14_NodeCount(Head(layers)) ELSE 0)
       + C14_Sum(Tail(layers))

\* the architecture section is rendered under the per-layer maximum m
C14_Rendered(m) ==
  LET p == constructed.enhanced_prompt
      expected == C14_Expected(C14_Layers, m)
  IN \E i \in LinesOf("overview") :
       /\ LinesOf("overview") = {i}
       /\ p[i].total = C14_Sum(C14_Layers)
       /\ p[i + 1].kind = "blank"
       /\ i + 1 + Len(expected) < Len(p)
       /\ \A j \in 1..Len(expected) : C14_Said(p[i + 1 + j]) = expected[j]
       /\ p[i + 2 + Len(expected)].kind \notin {"layer", "component", "more_components"}

C15_BareListEqualsWrapper ==
  (/\ pc = "done"
   /\ call.fn = "construct_enhanced_prompt"
   /\ args.application_architecture.kind = "list")
    => LET wrapped ==
             construct_enhanced_prompt(args.user_prompt, args.nfr_requirements,
               args.file_context, ArchDict({"layers"}, args.application_architecture),
               args.enhancement_type)
       IN /\ wrapped.built = constructed.built
          /\ wrapped.enhanced_prompt = constructed.enhanced_prompt
          /\ wrapped.system_prompt = constructed.system_prompt
          /\ wrapped.architecture_enabled = constructed.architecture_enabled
          /\ wrapped.architecture_layers = constructed.architecture_layers
          /\ wrapped.metadata = constructed.metadata

\* the user input holds the word
C16_Has(w) ==
  \E i \in 1..Len(args.user_prompt.text) : args.user_prompt.text[i].c = w

\* the sentences due for the user input and the architecture of the call
C16_Feature == IF C16_Has("Add") THEN <<"Focus on feature development best practices">> ELSE <<>>
C16_Refactor == IF C16_Has("refactoring") THEN <<"Emphasize code quality improvements">> ELSE <<>>
C16_Testing ==
  IF C16_Has("fix bug") \/ C16_Has("testing")
  THEN <<"Prioritize comprehensive testing strategies">> ELSE <<>>
C16_Awareness ==
  IF args.application_architecture.kind # "none"
  THEN <<"You have access to the application's architecture context.">> ELSE <<>>

\* the prompt was constructed for a text, with no architecture or with one
\* that holds at least one layer
C16_Case ==
  /\ Constructed
  /\ args.user_prompt.kind = "str"
  /\ \/ args.application_architecture.kind = "none"
     \/ NonEmptyList(args.application_architecture)
     \/ /\ args.application_architecture.kind = "dict"
        /\ "layers" \in args.application_architecture.keys
        /\ NonEmptyList(args.application_architecture.layers)

\* with no match and no architecture the base prompt is returned as it is
C16_BaseUnchanged ==
  (C16_Feature \o C16_Refactor \o C16_Testing \o C16_Awareness = <<>>)
    => constructed.system_prompt.base = get_system_prompt(C10_Resolved(args.enhancement_type))

\* C16, as stated: every matched category contributes its sentence to the
\* 'Additional Context' block, in the order feature development, refactor,
\* testing, architecture awareness; with no match and no architecture the
\* base prompt is returned unchanged.
C16_SentencesArchitectureLast ==
  C16_Case
    => /\ constructed.system_prompt.components
            = C16_Feature \o C16_Refactor \o C16_Testing \o C16_Awareness
       /\ C16_BaseUnchanged

\* C16, amended: as C16, the order being architecture awareness, feature
\* development, refactor, testing.
C16_SentencesArchitectureFirst ==
  C16_Case
    => /\ constructed.system_prompt.components
            = C16_Awareness \o C16_Feature \o C16_Refactor \o C16_Testing
       /\ C16_BaseUnchanged

\* all three categories matched and an architecture supplied: four sentences
C16_Witness ==
  /\ C16_Case
  /\ C16_Feature # <<>> /\ C16_Refactor # <<>> /\ C16_Testing # <<>> /\ C16_Awareness # <<>>
  /\ Len(constructed.system_prompt.components) = 4

\* C17: construct_enhanced_prompt signals an error exactly when user_input
\* is None; for every other input, whatever the shape of the requirements,
\* the file descriptors or the architecture, it returns a result.
C17_RaisesOnlyForNone ==
  (pc = "done" /\ call.fn = "construct_enhanced_prompt")
    => (constructed.built <=> args.user_prompt.kind # "none")

\* C18: whatever the backing file, missing, unreadable, no valid JSON or JSON
\* of the wrong shape, the loader holds after construction or reload a
\* catalog that covers the three canonical types, and no later lookup of a
\* system prompt, a validation rule or the instructions raises.
C18_LoadingFailSoft ==
  (\/ backing_file.kind \in {"missing", "unreadable", "invalid_json"}
   \/ backing_file.value.kind # "dict")
    => /\ config.kind = "dict"
       /\ "enhancement_instructions" \in config.keys
       /\ {"full_specification", "enhanced_prompt", "rephrase"}
            \subseteq config.enhancement_instructions.keys
       /\ (/\ pc = "done"
           /\ call.fn \in {"get_system_prompt", "get_validation_rule",
                           "format_enhancement_instructions"})
            => ret.kind # "raise"

\* the canonical type of a valid type
C19_Canonical(t) ==
  CASE t = "maximum_detail" -> "full_specification"
    [] t = "balanced" -> "enhanced_prompt"
    [] t = "key_requirements" -> "rephrase"
    [] OTHER -> t

\* the title the built-in catalog has for a canonical type
C19_BuiltInTitle(t) ==
  CASE t = "full_specification" -> "FULL SPECIFICATION REQUEST"
    [] t = "enhanced_prompt" -> "ENHANCED IMPLEMENTATION PLAN"
    [] t = "rephrase" -> "PROMPT OPTIMIZATION"

\* the title due for a canonical type: the one its entry configures; the one
\* of the 'default' entry, or else 'ENHANCEMENT INSTRUCTIONS', when the
\* catalog has no entry for the type; the built-in one when no catalog of
\* instructions can be read from what the loader holds
C19_Title(t) ==
  IF config.kind # "dict" THEN C19_BuiltInTitle(t)
  ELSE LET catalog == IF "enhancement_instructions" \in config.keys
                      THEN config.enhancement_instructions ELSE EmptyDict
       IN IF t \in catalog.keys /\ catalog[t].keys # {}
          THEN (IF "title" \in catalog[t].keys THEN catalog[t].title
                ELSE "ENHANCEMENT INSTRUCTIONS")
          ELSE IF "default" \in catalog.keys /\ "title" \in catalog.default.keys
          THEN catalog.default.title
          ELSE "ENHANCEMENT INSTRUCTIONS"

\* format_enhancement_instructions was called for a valid type and has returned
C19_Call ==
  /\ pc = "done"
  /\ call.fn = "format_enhancement_instructions"
  /\ call.a \in {"full_specification", "enhanced_prompt", "rephrase",
                 "maximum_detail", "balanced", "key_requirements"}

\* C19: for the three canonical types and the three legacy aliases,
\* format_enhancement_instructions returns a string that is not empty and
\* holds the configured title of the type, an alias yielding the title of its
\* canonical type, or the default title if the catalog has no entry for the type.
C19_InstructionsCarryTitle ==
  C19_Call
    => /\ ret.kind = "ok"
       /\ ret.value # <<>>
       /\ \E i \in 1..Len(ret.value) :
            /\ ret.value[i].kind = "h2"
            /\ ret.value[i].text = C19_Title(C19_Canonical(call.a))
            /\ \A j \in 1..Len(ret.value) : ret.value[j].kind = "h2" => j = i

\* an alias whose canonical type the catalog lacks: the title of the default entry
C19_Witness ==
  /\ C19_Call
  /\ call.a = "key_requirements"
  /\ config.kind = "dict"
  /\ "enhancement_instructions" \in config.keys
  /\ "rephrase" \notin config.enhancement_instructions.keys
  /\ ret.value[1].text = "DEFAULT INSTRUCTIONS"

\* analyze_prompt_complexity was called and has returned
C20_Call == pc = "done" /\ call.fn = "analyze_prompt_complexity"

\* the prompt is None or the empty string
C20_Empty == call.a.kind = "none" \/ (call.a.kind = "str" /\ call.a.text = <<>>)

\* the thresholds configured, None when there are none
C20_Rule ==
  IF /\ config.kind = "dict"
     /\ "validation_rules" \in config.keys
     /\ "complexity_thresholds" \in config.validation_rules.keys
  THEN config.validation_rules.complexity_thresholds
  ELSE NoneV

C20_Threshold(key, default) ==
  IF C20_Rule.kind = "dict" /\ key \in C20_Rule.keys THEN C20_Rule[key] ELSE PyInt(default)

\* the number of words of the prompt
C20_Words == IF call.a.kind = "str" THEN split_len(call.a.text, FALSE) ELSE 0

\* the analysis of a prompt that is not empty meets an internal error: the
\* prompt is no text, the catalog is no dict, a threshold it compares with is
\* no number, or the architecture is no list of layers with numbers for counts
C20_Fault ==
  /\ ~C20_Empty
  /\ \/ call.a.kind # "str"
     \/ config.kind # "dict"
     \/ C20_Threshold("low", 150).kind # "int"
     \/ /\ C20_Words >= C20_Threshold("low", 150).n
        /\ C20_Threshold("medium", 300).kind # "int"
     \/ /\ call.b.kind = "list"
        /\ \E i \in 1..Len(call.b.items) :
             \/ call.b.items[i].kind # "dict"
             \/ /\ "nodeCount" \in call.b.items[i].keys
                /\ call.b.items[i].nodeCount.kind # "int"

\* 'unknown' with the error string exactly on an internal error
C20_UnknownOnFault ==
  /\ ret.kind = "ok"
  /\ ret.complexity = "unknown" <=> C20_Fault
  /\ ret.error # "" <=> C20_Fault

\* C20, as stated: analyze_prompt_complexity returns for every prompt and
\* architecture list; with w words, the low threshold a (150 when not
\* configured) and the medium threshold b (300 when not configured) the
\* complexity is low when w < a, medium when a <= w < b, high when w >= b;
\* it is 'unknown', with the error string, exactly on an internal error.
C20_ComplexityByThresholds ==
  C20_Call
    => /\ C20_UnknownOnFault
       /\ (/\ ~C20_Fault
           /\ C20_Threshold("low", 150).kind = "int"
           /\ C20_Threshold("medium", 300).kind = "int")
            => LET a == C20_Threshold("low", 150).n
                   b == C20_Threshold("medium", 300).n
               IN /\ C20_Words < a => ret.complexity = "low"
                  /\ (a <= C20_Words /\ C20_Words < b) => ret.complexity = "medium"
                  /\ C20_Words >= b => ret.complexity = "high"

\* C20, amended: as C20, but a prompt that is None or empty is low whatever
\* the thresholds, and for any other prompt the complexity is low when
\* w < a, otherwise medium when w < b, otherwise high.
C20_ComplexityByThresholdsInTurn ==
  C20_Call
    => /\ C20_UnknownOnFault
       /\ C20_Empty => (ret.complexity = "low" /\ ret.word_count = 0)
       /\ (~C20_Fault /\ ~C20_Empty)
            => /\ ret.word_count = C20_Words
               /\ ret.complexity =
                    (IF C20_Words < C20_Threshold("low", 150).n THEN "low"
                     ELSE IF C20_Words < C20_Threshold("medium", 300).n THEN "medium"
                     ELSE "high")

\* 150 words under the built-in thresholds: medium
C20_Witness ==
  /\ C20_Call
  /\ backing_file.kind = "missing"
  /\ C20_Words = 150
  /\ ret.word_count = 150
  /\ ret.complexity = "medium"

(***************************************************************************)
(* The streaming response.                                                 *)
(***************************************************************************)
\* the event that reports a timeout, and what makes an event terminal
C21_TimeoutReport == [type |-> "error", text |-> "Request timeout - please try again"]
C21_Terminal(e) == e.type \in {"done", "error"}

\* the caller's timeout has elapsed: the timer has fired or the clock is past it
C21_Elapsed == timeout_occurred \/ clock > data.timeout

\* the events so far are text chunks, but for a terminal event in the last place
C21_ChunksThenTerminal ==
  /\ \A i \in 1..(Len(events) - 1) : events[i].type = "chunk"
  /\ pc = "streaming" => \A i \in 1..Len(events) : events[i].type = "chunk"
  /\ (ep = "stream" /\ pc = "done" /\ status = 200)
       => (events # <<>> /\ C21_Terminal(Last(events)))
  /\ (events # <<>> /\ C21_Terminal(Last(events))) => pc = "done"

\* the step that takes an event of the upstream after the timeout has elapsed
\* reports the timeout, and no other step reports it
C21_TimeoutReported ==
  /\ (upstream' # upstream /\ C21_Elapsed) => events' = Append(events, C21_TimeoutReport)
  /\ (events' # events /\ Last(events') = C21_TimeoutReport)
       => (upstream' # upstream /\ C21_Elapsed)

\* C21: every streaming response is a sequence of text-chunk events followed
\* by exactly one terminal event, completion or error; no event follows the
\* terminal one; a timeout is reported by an error event that differs from
\* the one of any other failure.
C21_ChunksThenOneTerminal ==
  [](C21_ChunksThenTerminal) /\ [][C21_TimeoutReported]_vars

\* a chunk, then the timeout reported
C21_Witness ==
  /\ ep = "stream" /\ pc = "done"
  /\ Len(events) = 2
  /\ events[1].type = "chunk"
  /\ events[2] = C21_TimeoutReport

\* the handlers and the service with a clock that advances and a timer that
\* fires; nothing is assumed of the upstream stream, which may deliver no
\* further event
StreamSpec == Init /\ [][Next]_vars /\ WF_vars(Tick) /\ WF_vars(timeout_handler)

\* C22: a streaming invocation that has not completed when the timeout
\* elapses eventually ends with a timeout failure, whatever the upstream
\* does, and yields no text chunk after the timeout has elapsed.
C22_TimeoutAborts ==
  /\ []((pc = "streaming" /\ C21_Elapsed)
          => <>(pc = "done" /\ events # <<>> /\ Last(events) = C21_TimeoutReport))
  /\ [][(events' # events /\ Last(events').type = "chunk") => ~C21_Elapsed]_vars

C23_ConstructedPromptFeedsLlm ==
  (pc = "llm_done" /\ call.fn = "enhance_with_llm")
    => IF call.b /\ call.a.kind = "text"
       THEN /\ ret.kind = "ok"
            /\ ret.value.enhanced_prompt = call.a
            /\ ret.value.prompt = constructed.enhanced_prompt
            /\ ret.value.system_prompt = constructed.system_prompt
       ELSE ret.kind = "raise"

(***************************************************************************)
(* The graph store.                                                        *)
(***************************************************************************)
MainGraph(d) == <<d.nodes, d.edges, d.custom_layers>>
Snapshots(d) == <<d.saved_graphs, d.saved_nodes, d.saved_edges>>
EmptyMain == <<{}, {}, {}>>
\* the saved records of every name but one
SnapshotsBut(d, graph_name) ==
  <<{sg \in d.saved_graphs : sg.name # graph_name},
    {sn \in d.saved_nodes : sn.graph_name # graph_name},
    {se \in d.saved_edges : se.graph_name # graph_name}>>
\* the nodes and edges a payload lists
PayloadNodes(import_data) ==
  {NodeOf(import_data.graph_data.nodes.items[i]) :
     i \in 1..Len(import_data.graph_data.nodes.items)}
PayloadEdges(import_data) ==
  {EdgeOf(import_data.graph_data.edges.items[i]) :
     i \in 1..Len(import_data.graph_data.edges.items)}

\* C24 as a step: a clearing request leaves nothing of the main graph it
\* found (what the main graph holds afterwards is what the request itself put
\* there) and changes no saved record, but for the snapshot an import was asked
\* to save.
C24_Step ==
  /\ (graph_call'.op = "clear_all_data" /\ clear_graph) =>
       (MainGraph(db') = EmptyMain /\ Snapshots(db') = Snapshots(db))
  /\ (graph_call'.op = "populate_sample_data" /\ populate_sample_graph) =>
       /\ db'.nodes = {sample_nodes[i] : i \in 1..Len(sample_nodes)}
       /\ db'.edges = {sample_edges[i] : i \in 1..Len(sample_edges)}
       /\ db'.custom_layers = {}
       /\ Snapshots(db') = Snapshots(db)
  /\ (graph_call'.op = "load_graph" /\ load_graph_handler) =>
       /\ db'.nodes = IF graph_call'.status = 200
                        THEN {NodeOf(sn) : sn \in SavedNodesOf(db, graph_call'.name)}
                        ELSE {}
       /\ db'.edges \subseteq {EdgeOf(se) : se \in SavedEdgesOf(db, graph_call'.name)}
       /\ db'.custom_layers = {}
       /\ Snapshots(db') = Snapshots(db)
  /\ (graph_call'.op = "import_graph" /\ graph_call'.clear_existing
        /\ graph_call'.status = 200) =>
     \A import_data \in ValidPayloads, graph_name \in {graph_call'.name} :
       import_graph_request(import_data, graph_name, TRUE) =>
         /\ db'.nodes = PayloadNodes(import_data)
         /\ db'.edges = PayloadEdges(import_data)
         /\ db'.custom_layers \subseteq LayerNames
         /\ SnapshotsBut(db', graph_name) = SnapshotsBut(db, graph_name)

\* C24: clear_all_data removes every node and relationship of the main graph
\* and leaves every SavedGraph, SavedNode and SavedEdge as it was, on its own
\* and when populate_sample_data, the load handler or an import with
\* clear_existing runs it.
C24_ClearSparesSnapshots ==
  /\ [](MainGraph(clear_all_data(db)) = EmptyMain)
  /\ [](Snapshots(clear_all_data(db)) = Snapshots(db))
  /\ [][C24_Step]_vars

\* the main graph was cleared while a snapshot with an edge was held
C24_Witness ==
  /\ graph_call.op = "clear_all_data"
  /\ MainGraph(db) = EmptyMain
  /\ db.saved_graphs # {} /\ db.saved_nodes # {} /\ db.saved_edges # {}

\* C26: a load request for a name without a saved graph is answered 404 and
\* leaves the nodes, the edges and the custom layers of the main graph as
\* they were.
C26_MissingLoadChangesNothing ==
  [][(load_graph_handler /\ ~HasSavedGraph(db, graph_call'.name))
       => (graph_call'.status = 404 /\ MainGraph(db') = MainGraph(db))]_vars

\* C27: after delete_saved_graph(name) returned true there is no SavedGraph,
\* SavedNode or SavedEdge of that name, and the records of the other names are
\* as they were.
C27_DeleteRemovesSnapshot ==
  [][(delete_saved_graph_handler /\ graph_call'.status = 200)
       => /\ ~HasSavedGraph(db', graph_call'.name)
          /\ SavedNodesOf(db', graph_call'.name) = {}
          /\ SavedEdgesOf(db', graph_call'.name) = {}
          /\ SnapshotsBut(db', graph_call'.name) = SnapshotsBut(db, graph_call'.name)]_vars

\* C28: what the claim calls a payload that fails structural validation
C28_Malformed(import_data) ==
  \/ import_data.kind # "dict"
  \/ "graph_data" \notin import_data.keys
  \/ import_data.graph_data.kind # "dict"
  \/ "nodes" \notin import_data.graph_data.keys
  \/ import_data.graph_data.nodes.kind # "list"
  \/ "edges" \notin import_data.graph_data.keys
  \/ import_data.graph_data.edges.kind # "list"
  \/ LET node_list == import_data.graph_data.nodes.items
         edge_list == import_data.graph_data.edges.items
     IN \/ \E i, j \in 1..Len(node_list) : i < j /\ node_list[i].id = node_list[j].id
        \/ \E i \in 1..Len(edge_list) :
             \/ \A j \in 1..Len(node_list) : node_list[j].id # edge_list[i].from_id
             \/ \A j \in 1..Len(node_list) : node_list[j].id # edge_list[i].to_id

\* C28 as a step of the two import routes
C28_Step ==
  /\ (graph_call'.op = "validate_import" /\ validate_import) => db' = db
  /\ (graph_call'.op = "import_graph" /\ graph_call'.status = 400 /\ import_graph)
       => db' = db

\* C28: import_graph_data leaves the store as it is when validate_only is true
\* and when the payload fails structural validation, whatever clear_existing
\* and graph_name ask for.
C28_RejectedImportChangesNothing ==
  /\ [](\A import_data \in Payloads, graph_name \in GraphNames \cup {""},
          clear_existing \in BOOLEAN :
          /\ import_graph_data(db, import_data, graph_name, clear_existing, TRUE).db = db
          /\ C28_Malformed(import_data) =>
               /\ import_graph_data(db, import_data, graph_name, clear_existing, FALSE).db = db
               /\ ~import_graph_data(db, import_data, graph_name, clear_existing,
                                     FALSE).result.success)
  /\ [][C28_Step]_vars

\* an import that asked for clear_existing and a graph name was refused, and
\* the main graph is there and no snapshot of that name is
C28_Witness ==
  /\ graph_call.op = "import_graph"
  /\ graph_call.status = 400
  /\ graph_call.clear_existing
  /\ graph_call.name # ""
  /\ db.nodes # {} /\ db.edges # {} /\ db.custom_layers # {}
  /\ ~HasSavedGraph(db, graph_call.name)
  /\ \E import_data \in Payloads : C28_Malformed(import_data)

\* the main graph save_graph, clear_all_data and load_graph give back
C30_RoundTrip(d, graph_name) ==
  load_graph(clear_all_data(save_graph(d, graph_name, get_all_nodes_and_edges(d), "nfr")),
             graph_name)

\* C30: save_graph(name, current graph), clear_all_data, load_graph(name)
\* gives back exactly the nodes, with id, name, description, layer and type,
\* and the edges, with from_id, to_id and type, of the graph saved, whatever
\* records of that name the store held before.
C30_SaveClearLoadRestores ==
  \A graph_name \in GraphNames :
    /\ C30_RoundTrip(db, graph_name).ok
    /\ C30_RoundTrip(db, graph_name).db.nodes = db.nodes
    /\ C30_RoundTrip(db, graph_name).db.edges = db.edges
    /\ (graph_call.op = "load_graph" /\ graph_call.status = 200) =>
         /\ db.nodes = {NodeOf(sn) : sn \in SavedNodesOf(db, graph_call.name)}
         /\ db.edges = {EdgeOf(se) : se \in SavedEdgesOf(db, graph_call.name)}

\* a graph with an edge was loaded from its snapshot, and the other name holds
\* records of an older, different graph which a save under that name replaces
C30_Witness ==
  /\ graph_call.op = "load_graph"
  /\ graph_call.status = 200
  /\ db.nodes = {Usability, LowLatency}
  /\ db.edges = {DependsOn}
  /\ \E graph_name \in GraphNames \ {graph_call.name} :
       /\ SavedNodesOf(db, graph_name) # {}
       /\ {NodeOf(sn) : sn \in SavedNodesOf(db, graph_name)} # db.nodes

(***************************************************************************)
(* The shared GitHubService.                                               *)
(***************************************************************************)
\* C29: a repository request for which no token is available, neither in the
\* request nor in the environment, is served without authentication, and never
\* with the token another request set.
C29_NoTokenServedUnauthenticated ==
  \A r \in Requests :
    (github_requests[r].phase = "served" /\ github_requests[r].github_token = NoToken)
      => github_requests[r].served = "public"
====
